---- MODULE Spec2Model ----
(***************************************************************************)
(* A model of install.py of qualia-gtk-theme: the persistent config record *)
(* (Config.read / Config.write), the component installers with their       *)
(* staleness tests, and the enablement engine (Enable.enable_theme).       *)
(*                                                                         *)
(* Python strings are TLA+ strings; the config file is the sequence of its *)
(* lines (each without its final newline).  Python None is the integer     *)
(* None where a desktop version is meant and the string NoneStr where a    *)
(* theme name is meant.  A dict key that is missing is recorded by its     *)
(* absence from the field "keys" of the record.                            *)
(***************************************************************************)
EXTENDS Integers, Sequences, FiniteSets, TLC

-----------------------------------------------------------------------------
(* Bounds of the model *)

\* How many times the script is started in one behaviour.
MaxRuns == 2

\* the longest file Config.read is given, in lines
MaxLines == 3

-----------------------------------------------------------------------------
(* Python string primitives *)

StartsWith(s, p) == Len(s) >= Len(p) /\ SubSeq(s, 1, Len(p)) = p

EndsWith(s, p) == Len(s) >= Len(p) /\ SubSeq(s, Len(s) - Len(p) + 1, Len(s)) = p

\* sub in s
Contains(s, sub) == \E i \in 1..(Len(s) - Len(sub) + 1) : SubSeq(s, i, i + Len(sub) - 1) = sub

\* index of the first occurrence of sub in s at or after i, 0 when there is none
RECURSIVE FindFrom(_, _, _)
FindFrom(s, sub, i) ==
    IF i + Len(sub) - 1 > Len(s) THEN 0
    ELSE IF SubSeq(s, i, i + Len(sub) - 1) = sub THEN i
    ELSE FindFrom(s, sub, i + 1)

\* s.split(sep)
RECURSIVE Split(_, _)
Split(s, sep) ==
    LET i == FindFrom(s, sep, 1)
    IN IF i = 0 THEN <<s>>
       ELSE <<SubSeq(s, 1, i - 1)>> \o Split(SubSeq(s, i + Len(sep), Len(s)), sep)

\* sep.join(list)
RECURSIVE Join(_, _)
Join(list, sep) ==
    IF list = <<>> THEN ""
    ELSE IF Len(list) = 1 THEN list[1]
    ELSE list[1] \o sep \o Join(Tail(list), sep)

RECURSIVE RStrip(_)
RStrip(s) ==
    IF Len(s) > 0 /\ SubSeq(s, Len(s), Len(s)) = " " THEN RStrip(SubSeq(s, 1, Len(s) - 1)) ELSE s

RECURSIVE LStrip(_)
LStrip(s) ==
    IF Len(s) > 0 /\ SubSeq(s, 1, 1) = " " THEN LStrip(SubSeq(s, 2, Len(s))) ELSE s

\* s.strip(): the newline that ends a line is not kept in the model
Strip(s) == LStrip(RStrip(s))

\* str(n) for n >= 0
RECURSIVE DecStr(_)
DecStr(n) ==
    LET d == SubSeq("0123456789", (n % 10) + 1, (n % 10) + 1)
    IN IF n < 10 THEN d ELSE DecStr(n \div 10) \o d

IsDigits(s) == Len(s) > 0 /\ \A i \in 1..Len(s) : Contains("0123456789", SubSeq(s, i, i))

RECURSIVE DecVal(_)
DecVal(s) ==
    IF Len(s) = 0 THEN 0
    ELSE 10 * DecVal(SubSeq(s, 1, Len(s) - 1))
         + (FindFrom("0123456789", SubSeq(s, Len(s), Len(s)), 1) - 1)

InSeq(x, list) == \E i \in 1..Len(list) : list[i] = x

RECURSIVE RemoveFirst(_, _)
RemoveFirst(list, x) ==
    IF list = <<>> THEN <<>>
    ELSE IF Head(list) = x THEN Tail(list)
    ELSE <<Head(list)>> \o RemoveFirst(Tail(list), x)

-----------------------------------------------------------------------------
(* Program constants *)

\* Python None as a desktop version (check_de_version, get_desktops)
None == -1

\* Python None as a theme name (Enable.__init__ defaults every name to None)
NoneStr == "<None>"

\* VARIANTS['color'], in dict order
ColorNames ==
    <<"orange", "bark", "sage", "olive", "viridian", "prussiangreen",
      "lightblue", "blue", "purple", "magenta", "pink", "red">>

\* VARIANTS['theme'], in dict order
ThemeNames == <<"light", "dark", "auto">>

\* VARIANTS['enableable']: the component groups in dict order, and their parts
Groups ==
    <<"dg-adw-gtk3", "dg-libadwaita", "dg-yaru", "dg-firefox-theme",
      "dg-vscode-adwaita", "qualia-gtk-theme-snap">>

Parts(g) ==
    CASE g = "dg-adw-gtk3" -> <<"gtk3", "gtk4-libadwaita">>
      [] g = "dg-libadwaita" -> <<"gtk4">>
      [] g = "dg-yaru" -> <<"gnome-shell", "cinnamon-shell", "metacity", "ubuntu-unity",
                            "xfwm4", "icons", "cursors", "sounds", "gtksourceview">>
      [] g = "dg-firefox-theme" -> <<"firefox", "settings_theme">>
      [] g = "dg-vscode-adwaita" -> <<"vscode", "default_syntax">>
      [] g = "qualia-gtk-theme-snap" -> <<"snap">>

\* the groups that carry a version token (every group but the snap)
VersionGroups == {Groups[i] : i \in 1..Len(Groups)} \ {"qualia-gtk-theme-snap"}

\* VERSIONS: the supported versions of each desktop (budgie's 10.6 is kept as
\* 10: only "is not None" is ever asked of it)
VERSIONS ==
    [gnome |-> {42, 43}, cinnamon |-> {4, 5}, unity |-> {7}, xfce |-> {4},
     mate |-> {1}, budgie |-> {10}]

Desktops == DOMAIN VERSIONS

\* the order in which get_desktops fills desktop_versions
DesktopOrder == <<"gnome", "cinnamon", "unity", "mate", "budgie", "xfce">>

RECURSIVE Flatten(_)
Flatten(seqs) == IF seqs = <<>> THEN <<>> ELSE Head(seqs) \o Flatten(Tail(seqs))

\* every part of every group, in dict order
AllParts == Flatten([i \in 1..Len(Groups) |-> Parts(Groups[i])])

SelectParts(list, drop) == SelectSeq(list, LAMBDA p : p \notin drop)

\* Config.get_enableable with its first loop alone: nothing is deleted
get_enableable_all(desktop_versions, firefox, vscode, snap) == AllParts

\* Config.get_enableable deleting 'xfwm4' where Xfce is found, and nothing else
get_enableable_inverted(desktop_versions, firefox, vscode, snap) ==
    SelectParts(AllParts, IF desktop_versions["xfce"] = None THEN {} ELSE {"xfwm4"})

\* Config.get_enableable: the parts that can be enabled on this host
get_enableable(desktop_versions, firefox, vscode, snap) ==
    LET noDesktop ==
            {p \in {"gnome-shell", "cinnamon-shell", "ubuntu-unity", "metacity", "xfwm4"} :
                \/ p = "gnome-shell" /\ desktop_versions["gnome"] = None
                \/ p = "cinnamon-shell" /\ desktop_versions["cinnamon"] = None
                \/ p = "ubuntu-unity" /\ desktop_versions["unity"] = None
                \/ p = "metacity" /\ desktop_versions["mate"] = None
                \/ p = "xfwm4" /\ desktop_versions["xfce"] = None}
        noHost ==
            (IF Len(firefox) = 0 THEN {"firefox"} ELSE {})
            \cup (IF Len(vscode) = 0 THEN {"vscode"} ELSE {})
            \cup (IF snap THEN {} ELSE {"snap"})
    IN SelectParts(AllParts, noDesktop \cup noHost)

\* Config.__init__: the record before anything is read
NewConfig(env) ==
    [keys |-> {},
     color |-> "", theme |-> "", color_scheme |-> "", suffix |-> "", variant |-> "",
     enabled |-> <<>>,
     desktop_versions |-> env.desktop_versions,
     enableable |-> get_enableable(env.desktop_versions, env.firefox, env.vscode, env.snap),
     firefox |-> env.firefox, vscode |-> env.vscode,
     old |-> <<>>, old_firefox |-> <<>>, old_vscode |-> <<>>, old_gnome |-> None,
     version |-> [g \in VersionGroups |-> ""],
     exc |-> ""]

-----------------------------------------------------------------------------
(* The snapshot map config['old']: a dict of dicts, kept in insertion order. *)
(* An entry of the outer dict is [theme, des]; des is the inner dict, a      *)
(* sequence of [de, val, islist].  islist marks a value that Config.read     *)
(* split into a list (val is then the text as it stood in the file).         *)

HasTheme(old, theme) == \E i \in 1..Len(old) : old[i].theme = theme

ThemeDes(old, theme) ==
    LET i == CHOOSE i \in 1..Len(old) : old[i].theme = theme IN old[i].des

HasSnap(old, theme, de) ==
    HasTheme(old, theme) /\ \E j \in 1..Len(ThemeDes(old, theme)) : ThemeDes(old, theme)[j].de = de

Snap(old, theme, de) ==
    LET des == ThemeDes(old, theme)
        j == CHOOSE j \in 1..Len(des) : des[j].de = de
    IN des[j]

\* inner[de] = entry
SetDe(des, entry) ==
    IF \E j \in 1..Len(des) : des[j].de = entry.de
    THEN [j \in 1..Len(des) |-> IF des[j].de = entry.de THEN entry ELSE des[j]]
    ELSE Append(des, entry)

\* old[theme] = des
SetTheme(old, theme, des) ==
    IF HasTheme(old, theme)
    THEN [i \in 1..Len(old) |-> IF old[i].theme = theme THEN [theme |-> theme, des |-> des] ELSE old[i]]
    ELSE Append(old, [theme |-> theme, des |-> des])

\* old[theme][de] = value, old[theme] being there
SetSnap(old, theme, de, val) ==
    SetTheme(old, theme, SetDe(ThemeDes(old, theme), [de |-> de, val |-> val, islist |-> FALSE]))

-----------------------------------------------------------------------------
(* Config.write *)

\* str() of a desktop version
PyStr(v) == IF v = None THEN "None" ELSE DecStr(v)

RECURSIVE OldLinesOfTheme_all(_, _)
\* the inner loop of Config.write without the test on the value
OldLinesOfTheme_all(theme, des) ==
    IF des = <<>> THEN [lines |-> <<>>, exc |-> ""]
    ELSE LET e == Head(des)
             rest == OldLinesOfTheme_all(theme, Tail(des))
         IN [lines |-> <<"old_" \o theme \o "_" \o e.de \o ": " \o e.val>> \o rest.lines,
             exc |-> rest.exc]

RECURSIVE OldLinesOfTheme(_, _)
\* the inner loop of Config.write over config['old'][theme]
OldLinesOfTheme(theme, des) ==
    IF des = <<>> THEN [lines |-> <<>>, exc |-> ""]
    ELSE LET e == Head(des) IN
         IF e.islist
         THEN \* a list is != '' and has no startswith
              [lines |-> <<>>, exc |-> "AttributeError"]
         ELSE LET rest == OldLinesOfTheme(theme, Tail(des))
                  mine == IF e.val # "" /\ ~StartsWith(e.val, "qualia")
                          THEN <<"old_" \o theme \o "_" \o e.de \o ": " \o e.val>>
                          ELSE <<>>
              IN [lines |-> mine \o rest.lines, exc |-> rest.exc]

RECURSIVE OldLines(_)
\* the outer loop of Config.write over config['old']
OldLines(old) ==
    IF old = <<>> THEN [lines |-> <<>>, exc |-> ""]
    ELSE LET first == OldLinesOfTheme(Head(old).theme, Head(old).des) IN
         IF first.exc # "" THEN first
         ELSE LET rest == OldLines(Tail(old))
              IN [lines |-> first.lines \o rest.lines, exc |-> rest.exc]

\* the '<group>_version: <token>' lines, in the order of VARIANTS['enableable']
VersionLines(config) ==
    LET line(i) == IF Groups[i] \in VersionGroups /\ "version" \in config.keys
                   THEN <<Groups[i] \o "_version: " \o config.version[Groups[i]]>>
                   ELSE <<>>
    IN Flatten([i \in 1..Len(Groups) |-> line(i)])

\* Config.write: the lines of the file it leaves, and the exception it raised, if any
write(config) ==
    LET missing == {"color", "theme", "enabled"} \ config.keys
        head == <<"This file is generated and used by the install script.">>
        ident == <<"color: " \o config.color,
                   "theme: " \o config.theme,
                   "enabled: " \o Join(config.enabled, " "),
                   "",
                   "gnome: " \o PyStr(config.desktop_versions["gnome"]),
                   "firefox: " \o Join(config.firefox, " "),
                   "vscode: " \o Join(config.vscode, " "),
                   "">>
        olds == OldLines(config.old)
    IN IF "color" \in missing THEN [lines |-> head, exc |-> "KeyError"]
       ELSE IF "theme" \in missing THEN [lines |-> head \o SubSeq(ident, 1, 1), exc |-> "KeyError"]
       ELSE IF "enabled" \in missing THEN [lines |-> head \o SubSeq(ident, 1, 2), exc |-> "KeyError"]
       ELSE [lines |-> head \o ident \o VersionLines(config) \o <<"">> \o olds.lines,
             exc |-> olds.exc]

-----------------------------------------------------------------------------
(* Config.read *)

\* 'firefox...' entries of a list are read as 'firefox'
FirefoxName(theme) == IF StartsWith(theme, "firefox") THEN "firefox" ELSE theme

\* the branch of Config.read for the keys 'enabled', 'firefox' and 'vscode':
\* the list that replaces config[prefix + key]
read_list(config, key, raw, islist) ==
    IF islist
    THEN \* "(theme in enableable or key != 'enabled') not in list": a bool is
         \* never an element of a list of strings, so every entry is appended
         LET value == Split(raw, " ")
         IN [i \in 1..Len(value) |-> FirefoxName(value[i])]
    ELSE LET value == FirefoxName(raw)
         IN IF InSeq(value, config.enableable) \/ key # "enabled" THEN <<value>> ELSE <<>>

\* the branch of Config.read for a key that starts with 'old'
read_old(config, key, raw, islist) ==
    LET old == Split(key, "_") IN
    IF Len(old) < 3 THEN [config EXCEPT !.exc = "IndexError"]
    ELSE IF old[3] \in Desktops
    THEN [config EXCEPT !.old =
            SetTheme(config.old, old[2], <<[de |-> old[3], val |-> raw, islist |-> islist]>>)]
    ELSE config

\* the last branch of Config.read, for a value that is a str
read_str(config, key, value, configured) ==
    IF ~configured /\ key = "color" /\ InSeq(value, ColorNames)
    THEN [config EXCEPT !.color = value, !.keys = @ \cup {"color"}]
    ELSE IF ~configured /\ key = "theme" /\ InSeq(value, ThemeNames)
    THEN [config EXCEPT !.theme = value, !.keys = @ \cup {"theme"}]
    ELSE IF EndsWith(key, "version") /\ Len(value) = 40
    THEN IF \E g \in VersionGroups : key = g \o "_version"
         THEN LET g == CHOOSE g \in VersionGroups : key = g \o "_version"
              IN [config EXCEPT !.version[g] = value]
         ELSE config
    ELSE config

\* "if key == 'firefox' and len(value) > 0: config['enabled'].append(key)":
\* old config files had a single 'firefox' flag
read_firefox_flag(config, key, raw, islist) ==
    IF key = "firefox" /\ (islist \/ Len(raw) > 0)
    THEN IF "enabled" \in config.keys
         THEN [config EXCEPT !.enabled = Append(@, key)]
         ELSE [config EXCEPT !.exc = "KeyError"]
    ELSE config

\* the if / elif chain of Config.read on one 'key: value' line
read_entry(config, key, raw, islist, configured) ==
    IF config.exc # "" THEN config
    ELSE IF ~configured /\ key = "enabled"
    THEN [config EXCEPT !.enabled = read_list(config, key, raw, islist),
                        !.keys = @ \cup {"enabled"}]
    ELSE IF ~configured /\ key = "firefox"
    THEN [config EXCEPT !.old_firefox = read_list(config, key, raw, islist)]
    ELSE IF ~configured /\ key = "vscode"
    THEN [config EXCEPT !.old_vscode = read_list(config, key, raw, islist)]
    ELSE IF StartsWith(key, "old") THEN read_old(config, key, raw, islist)
    ELSE IF key = "gnome"
    THEN IF islist THEN [config EXCEPT !.exc = "TypeError"]
         ELSE [config EXCEPT !.old_gnome = IF IsDigits(raw) THEN DecVal(raw) ELSE None,
                             !.keys = @ \cup {"old_gnome"}]
    ELSE IF ~islist THEN read_str(config, key, raw, configured)
    ELSE config

\* key = line[0], value = line[1] (IndexError: continue), the split of a value
\* that holds a space
read_parts(config, parts, configured) ==
    IF Len(parts) < 2 THEN config
    ELSE read_entry(read_firefox_flag(config, parts[1], parts[2], Contains(parts[2], " ")),
                    parts[1], parts[2], Contains(parts[2], " "), configured)

\* one turn of the loop of Config.read over the lines of the file
read_line(config, line, configured) ==
    IF ~Contains(line, ": ") THEN config
    ELSE read_parts(config, Split(Strip(line), ": "), configured)

RECURSIVE read_lines(_, _, _)
read_lines(config, lines, configured) ==
    IF lines = <<>> \/ config.exc # "" THEN config
    ELSE read_lines(read_line(config, Head(lines), configured), Tail(lines), configured)

\* Config.read: file is the config file (NoFile: FileNotFoundError, passed over)
read(config, file, configured) ==
    LET start == [config EXCEPT !.old = <<>>, !.old_vscode = <<>>, !.old_firefox = <<>>,
                                !.version = [g \in VersionGroups |-> ""],
                                !.keys = @ \cup {"version"}]
    IN IF file.kind = "file" THEN read_lines(start, file.lines, configured)
       ELSE IF file.kind = "dir" THEN [start EXCEPT !.exc = "IsADirectoryError"]
       ELSE start

-----------------------------------------------------------------------------
(* Config.theme_variants, Config.configure *)

\* Config.theme_variants: the record with color_scheme set, and what it returns
theme_variants(config, pref, env) ==
    IF pref = "auto"
    THEN \* check_output(['gsettings', 'get', ..., 'color-scheme']); None when
         \* gsettings is not there
         LET theme_setting == IF env.gsettings THEN env.color_scheme ELSE NoneStr
         IN IF theme_setting \in {"prefer-dark", "default"}
            THEN [config |-> [config EXCEPT !.color_scheme = theme_setting,
                                            !.keys = @ \cup {"color_scheme"}],
                  ok |-> TRUE]
            ELSE [config |-> config, ok |-> FALSE]
    ELSE IF pref = "light"
    THEN [config |-> [config EXCEPT !.color_scheme = "default", !.keys = @ \cup {"color_scheme"}],
          ok |-> TRUE]
    ELSE IF pref = "dark"
    THEN [config |-> [config EXCEPT !.color_scheme = "prefer-dark", !.keys = @ \cup {"color_scheme"}],
          ok |-> TRUE]
    ELSE [config |-> config, ok |-> TRUE]

\* Config.config_yn: the answer the prompt returns when the user wants `want`;
\* a 'y' for a part built with meson is asked again until meson and ninja are there
config_yn(name, want, env) ==
    IF InSeq(name, Parts("dg-yaru")) \/ InSeq(name, Parts("dg-adw-gtk3"))
    THEN want /\ env.meson
    ELSE want

\* "if 'firefox' in config['enabled']" taken for true
parent_enabled_always(parent, enabled) == TRUE

\* "if 'firefox' in config['enabled']", "if 'vscode' in config['enabled']"
parent_enabled(parent, enabled) == InSeq(parent, enabled)

RECURSIVE configure_parts(_, _, _, _, _)
\* the loop of Config.configure over config['enableable']; st is
\* [enabled, exit], exit set by sys.exit()
configure_parts(st, keys, f, answers, env) ==
    IF keys = <<>> \/ st.exit THEN st
    ELSE
    LET key == Head(keys)
        yes == config_yn(key, key \in answers.yes, env)
        parent == IF key = "settings_theme" THEN "firefox" ELSE "vscode"
        narrow == IF key = "settings_theme" THEN f.update_settings ELSE f.update_syntax
        next ==
            IF key \in {"settings_theme", "default_syntax"} /\ (narrow \/ f.configure_all)
            THEN IF parent_enabled(parent, st.enabled)
                 THEN IF yes
                      THEN IF InSeq(key, st.enabled) THEN st
                           ELSE [st EXCEPT !.enabled = Append(@, key)]
                      ELSE [st EXCEPT !.enabled = RemoveFirst(@, key)]
                 ELSE IF narrow THEN [st EXCEPT !.exit = TRUE]
                 ELSE st
            ELSE IF f.configure_all /\ yes THEN [st EXCEPT !.enabled = Append(@, key)]
            ELSE st
    IN configure_parts(next, Tail(keys), f, answers, env)

\* Config.configure; f holds the global flags; the result is [config, exit]
configure(config, f, answers, env) ==
    LET c1 == IF f.configure_all \/ f.update_color
              THEN [config EXCEPT !.color = answers.color, !.keys = @ \cup {"color"}]
              ELSE config
        \* config_menu asks again until theme_variants accepts the choice
        c2 == IF f.configure_all \/ f.update_theme
              THEN [theme_variants(c1, answers.theme, env).config
                        EXCEPT !.theme = answers.theme, !.keys = @ \cup {"theme"}]
              ELSE c1
        c3 == IF f.configure_all THEN [c2 EXCEPT !.enabled = <<>>, !.keys = @ \cup {"enabled"}]
              ELSE c2
        st == configure_parts([enabled |-> c3.enabled, exit |-> FALSE], c3.enableable,
                              f, answers, env)
    IN [config |-> [c3 EXCEPT !.enabled = st.enabled], exit |-> st.exit]

\* the answers config_menu can return: a theme that theme_variants accepts
ValidAnswers(answers, env) ==
    theme_variants(NewConfig(env), answers.theme, env).ok

-----------------------------------------------------------------------------
(* The settings stores and Enable *)

\* the themes of Enable._data, in dict order
DataThemes ==
    <<"gtk3", "icons", "cursors", "sounds", "gnome-shell", "cinnamon-shell", "metacity", "xfwm4">>

InterfaceSchemas ==
    <<[de |-> "gnome", schema |-> "org.gnome.desktop.interface"],
      [de |-> "cinnamon", schema |-> "org.cinnamon.desktop.interface"],
      [de |-> "unity", schema |-> "org.gnome.desktop.interface"],
      [de |-> "mate", schema |-> "org.mate.interface"],
      [de |-> "budgie", schema |-> "org.gnome.desktop.interface"]>>

CursorSchemas ==
    [i \in 1..Len(InterfaceSchemas) |->
        IF InterfaceSchemas[i].de = "mate"
        THEN [de |-> "mate", schema |-> "org.mate.peripherals-mouse"]
        ELSE InterfaceSchemas[i]]

SoundSchemas ==
    <<[de |-> "gnome", schema |-> "org.gnome.desktop.sound"],
      [de |-> "cinnamon", schema |-> "org.cinnamon.desktop.sound"],
      [de |-> "unity", schema |-> "org.gnome.desktop.sound"],
      [de |-> "mate", schema |-> "org.mate.sound"],
      [de |-> "budgie", schema |-> "org.gnome.desktop.sound"]>>

\* Enable._data: the stores of each theme; names maps each theme to its name
data(names) ==
    [theme \in DOMAIN names \cap {DataThemes[i] : i \in 1..Len(DataThemes)} |->
        CASE theme = "gtk3" ->
                [schemas |-> InterfaceSchemas, key |-> "gtk-theme", property |-> "/Net/ThemeName",
                 channel |-> "xsettings", theme_name |-> names[theme]]
          [] theme = "icons" ->
                [schemas |-> InterfaceSchemas, key |-> "icon-theme",
                 property |-> "/Net/IconThemeName",
                 channel |-> "xsettings", theme_name |-> names[theme]]
          [] theme = "cursors" ->
                [schemas |-> CursorSchemas, key |-> "cursor-theme",
                 property |-> "/Gtk/CursorThemeName",
                 channel |-> "xsettings", theme_name |-> names[theme]]
          [] theme = "sounds" ->
                [schemas |-> SoundSchemas, key |-> "theme-name", property |-> "/Net/SoundThemeName",
                 channel |-> "xsettings", theme_name |-> names[theme]]
          [] theme = "gnome-shell" ->
                [schemas |-> <<[de |-> "gnome", schema |-> "org.gnome.shell.extensions.user-theme"]>>,
                 key |-> "name", property |-> NoneStr, channel |-> NoneStr,
                 theme_name |-> names[theme]]
          [] theme = "cinnamon-shell" ->
                [schemas |-> <<[de |-> "cinnamon", schema |-> "org.cinnamon.theme"]>>,
                 key |-> "name", property |-> NoneStr, channel |-> NoneStr,
                 theme_name |-> names[theme]]
          [] theme = "metacity" ->
                [schemas |-> <<[de |-> "mate", schema |-> "org.mate.Marco.general"]>>,
                 key |-> "theme", property |-> NoneStr, channel |-> NoneStr,
                 theme_name |-> names[theme]]
          [] theme = "xfwm4" ->
                [schemas |-> <<>>, key |-> NoneStr, property |-> "/general/theme",
                 channel |-> "xfwm4", theme_name |-> names[theme]]]

\* a setting of a store: 'gsettings get <schema> <key>' or
\* 'xfconf-query -c <channel> -p <property>'
StoreKey(a, b) == a \o " " \o b

\* every setting Enable can touch
StoreKeys ==
    LET d == data([i \in {DataThemes[j] : j \in 1..Len(DataThemes)} |-> ""])
    IN UNION {{StoreKey(d[t].schemas[i].schema, d[t].key) : i \in 1..Len(d[t].schemas)}
              \cup (IF d[t].property = NoneStr THEN {} ELSE {StoreKey(d[t].channel, d[t].property)})
              : t \in DOMAIN d}

RECURSIVE StripQuotes(_)
\* output.strip('\'\n') of check_output
StripQuotes(s) ==
    IF Len(s) > 0 /\ SubSeq(s, 1, 1) = "'" THEN StripQuotes(SubSeq(s, 2, Len(s)))
    ELSE IF Len(s) > 0 /\ SubSeq(s, Len(s), Len(s)) = "'" THEN StripQuotes(SubSeq(s, 1, Len(s) - 1))
    ELSE s

\* check_output(['gsettings', 'get', schema, key]): gsettings prints the string quoted
gsettings_get(live, schema, key) == StripQuotes("'" \o live[StoreKey(schema, key)] \o "'")

\* check_output(['xfconf-query', '-c', channel, '-p', prop])
xfconf_get(live, channel, prop) == StripQuotes(live[StoreKey(channel, prop)])

\* the four lines that keep the snapshot of (theme, de), the live value being value
capture_every_desktop(old, theme, de, value) ==
    IF ~HasSnap(old, theme, de)
    THEN [old |-> SetTheme(old, theme,
                     SetDe(IF HasTheme(old, theme) THEN ThemeDes(old, theme) ELSE <<>>,
                           [de |-> de, val |-> value, islist |-> FALSE])),
          exc |-> ""]
    ELSE [old |-> old, exc |-> ""]

capture(old, theme, de, value) ==
    IF ~HasTheme(old, theme)
    THEN [old |-> SetTheme(old, theme, <<[de |-> de, val |-> value, islist |-> FALSE]>>), exc |-> ""]
    ELSE IF HasSnap(old, theme, de)
    THEN IF Snap(old, theme, de).islist THEN [old |-> old, exc |-> "AttributeError"]
         ELSE IF StartsWith(Snap(old, theme, de).val, "qualia")
         THEN [old |-> SetSnap(old, theme, de, value), exc |-> ""]
         ELSE [old |-> old, exc |-> ""]
    ELSE [old |-> old, exc |-> ""]

\* "if old != name:" left out of enable_theme
apply_always(st, theme, de, store, value, name) ==
    IF name = NoneStr THEN [st EXCEPT !.exc = "TypeError"]
    ELSE IF st.ncmd + 1 = st.fail THEN [st EXCEPT !.ncmd = @ + 1, !.exit = TRUE]
    ELSE [st EXCEPT !.ncmd = @ + 1,
                    !.live[store] = name,
                    !.writes = Append(@, [theme |-> theme, de |-> de, store |-> store,
                                          was |-> value, name |-> name])]

\* run_command(['gsettings', 'set', ...]) or run_command(['xfconf-query', ..., '-s', name])
\* of enable_theme: st.fail is the number of the command of this pass that
\* exits nonzero (0: none does), on which run_command ends the process
apply(st, theme, de, store, value, name) ==
    IF value = name THEN st
    ELSE IF name = NoneStr THEN [st EXCEPT !.exc = "TypeError"]
    ELSE IF st.ncmd + 1 = st.fail THEN [st EXCEPT !.ncmd = @ + 1, !.exit = TRUE]
    ELSE [st EXCEPT !.ncmd = @ + 1,
                    !.live[store] = name,
                    !.writes = Append(@, [theme |-> theme, de |-> de, store |-> store,
                                          was |-> value, name |-> name])]

Stopped(st) == st.exit \/ st.exc # ""


\* a missing binary raising FileNotFoundError where enable_theme prints
not_found_fatal(st, theme, what) == [st EXCEPT !.exc = "FileNotFoundError"]

\* print("'gsettings' not found, not enabling <theme> theme."), and the same
\* for 'xfconf-query'
not_found(st, theme, what) ==
    [st EXCEPT !.diag = Append(@, [theme |-> theme, what |-> what])]

\* enable_theme with "name = value['theme_name']" for every theme and desktop
wanted_name_own(theme, de, d, uninstalling) == d[theme].theme_name

\* the name enable_theme sets in the schema of desktop de: the panel is not
\* always dark in unity, so light icons go with the light theme
wanted_name(theme, de, d, uninstalling) ==
    IF theme = "icons" /\ de = "unity" /\ ~uninstalling
    THEN d["gtk3"].theme_name
    ELSE d[theme].theme_name

RECURSIVE enable_schemas(_, _, _, _, _, _, _, _)
\* the loop of enable_theme over value['schemas'] (the gsettings side of a theme)
enable_schemas(st, theme, d, schemas, config, env, desktop, uninstalling) ==
    IF schemas = <<>> \/ Stopped(st) THEN st
    ELSE
    LET de == Head(schemas).de
        schema == Head(schemas).schema
        value == d[theme]
        name == wanted_name(theme, de, d, uninstalling)
        key == value.key
        store == StoreKey(schema, key)
    IN IF desktop # "all" /\ desktop # de
       THEN enable_schemas(st, theme, d, Tail(schemas), config, env, desktop, uninstalling)
       ELSE IF env.gsettings
       THEN IF config.desktop_versions[de] # None
            THEN LET old == gsettings_get(st.live, schema, key)
                     cap == capture(st.old, theme, de, old)
                     st1 == [st EXCEPT !.old = cap.old, !.exc = cap.exc,
                                       !.reads = @ \cup {store}]
                     st2 == IF cap.exc # "" THEN st1 ELSE apply(st1, theme, de, store, old, name)
                 IN enable_schemas(st2, theme, d, Tail(schemas), config, env, desktop, uninstalling)
            ELSE enable_schemas(st, theme, d, Tail(schemas), config, env, desktop, uninstalling)
       ELSE \* 'gsettings' not found: break
            not_found(st, theme, "gsettings not found")

\* the xfconf side of a theme in enable_theme
enable_xfce(st, theme, d, config, env) ==
    LET value == d[theme]
        prop == value.property
        name == value.theme_name
        channel == value.channel
        store == StoreKey(channel, prop)
    IN IF Stopped(st) THEN st
       ELSE IF env.xfconf
       THEN IF prop # NoneStr /\ config.desktop_versions["xfce"] # None
            THEN LET old == xfconf_get(st.live, channel, prop)
                     cap == capture(st.old, theme, "xfce", old)
                     st1 == [st EXCEPT !.old = cap.old, !.exc = cap.exc,
                                       !.reads = @ \cup {store}]
                 IN IF cap.exc # "" THEN st1 ELSE apply(st1, theme, "xfce", store, old, name)
            ELSE st
       ELSE IF prop # NoneStr /\ config.desktop_versions["xfce"] # None
       THEN not_found(st, theme, "xfconf-query not found")
       ELSE st

\* enable_theme without the test on gnome-extensions
shell_precondition_none(st, env) == [go |-> TRUE, st |-> st]

\* the test enable_theme makes before it touches the GNOME Shell theme:
\* [go, st]; go is FALSE on "continue"
shell_precondition(st, env) ==
    IF env.gnome_extensions = "listed"
    THEN \* run_command(['gnome-extensions', 'enable', 'user-theme@...'])
         IF st.ncmd + 1 = st.fail
         THEN [go |-> FALSE, st |-> [st EXCEPT !.ncmd = @ + 1, !.exit = TRUE]]
         ELSE [go |-> TRUE, st |-> [st EXCEPT !.ncmd = @ + 1]]
    ELSE IF env.gnome_extensions \in {"unlisted", "error"}
    THEN [go |-> FALSE,
          st |-> [st EXCEPT !.diag = Append(@, [theme |-> "gnome-shell",
                                                what |-> "User Themes extension not found"])]]
    ELSE [go |-> FALSE,
          st |-> [st EXCEPT !.diag = Append(@, [theme |-> "gnome-shell",
                                                what |-> "gnome-extensions not found"])]]

RECURSIVE enable_themes(_, _, _, _, _, _, _)
\* the loop of enable_theme over data.items()
enable_themes(st, themes, d, config, env, desktop, uninstalling) ==
    IF themes = <<>> \/ Stopped(st) THEN st
    ELSE
    LET theme == Head(themes)
        rest(s) == enable_themes(s, Tail(themes), d, config, env, desktop, uninstalling)
    IN IF theme \in DOMAIN d /\ (InSeq(theme, config.enabled) \/ uninstalling)
       THEN IF d[theme].theme_name = NoneStr THEN rest(st)
            ELSE LET pre == IF theme = "gnome-shell" THEN shell_precondition(st, env)
                            ELSE [go |-> TRUE, st |-> st]
                 IN IF ~pre.go THEN rest(pre.st)
                    ELSE rest(enable_xfce(
                            enable_schemas(pre.st, theme, d, d[theme].schemas, config, env,
                                           desktop, uninstalling),
                            theme, d, config, env))
       ELSE rest(st)

\* Enable.enable_theme: one pass over every theme and desktop.  The result
\* holds the snapshot map and the stores it leaves, the settings it set (writes),
\* the settings it read, its diagnostics, and how it ended (exit: run_command
\* ended the process; exc: an exception that nothing catches)
enable_theme(config, names, live, env, desktop, uninstalling, fail) ==
    enable_themes([old |-> config.old, live |-> live, writes |-> <<>>, reads |-> {},
                   diag |-> <<>>, ncmd |-> 0, fail |-> fail, exit |-> FALSE, exc |-> ""],
                  DataThemes, data(names), config, env, desktop, uninstalling)

\* the names main passes to Enable (kwargs)
ThemeNamesOf(config) ==
    LET theme_name == IF config.color = "orange" THEN "qualia" \o config.suffix
                      ELSE "qualia-" \o config.color \o config.suffix
        icon_name == IF config.color = "orange" THEN "qualia-dark"
                     ELSE "qualia-" \o config.color \o "-dark"
        cursor_name == "qualia"
        xfwm4_name == "qualia" \o config.suffix
    IN [t \in {DataThemes[i] : i \in 1..Len(DataThemes)} |->
            CASE t \in {"gtk3", "gnome-shell", "cinnamon-shell"} -> theme_name
              [] t = "icons" -> icon_name
              [] t \in {"cursors", "sounds"} -> cursor_name
              [] t \in {"metacity", "xfwm4"} -> xfwm4_name]

-----------------------------------------------------------------------------
(* main, up to the first conf.write *)

NoFile == [kind |-> "none", lines |-> <<>>]

File(lines) == [kind |-> "file", lines |-> lines]

\* CONFIG_FILE is a directory
Dir == [kind |-> "dir", lines |-> <<>>]

\* Config.write with open(CONFIG_FILE, 'a') and nothing removed
write_file_appending(file, config) ==
    IF file.kind = "file" THEN File(file.lines \o write(config).lines)
    ELSE File(write(config).lines)

\* Config.write on the path: os.remove of a file, shutil.rmtree of a directory,
\* then open(CONFIG_FILE, 'x') and the lines written before an exception, if any
write_file(file, config) ==
    LET removed == IF file.kind = "file" THEN NoFile
                   ELSE IF file.kind = "dir" THEN NoFile
                   ELSE file
    IN IF removed.kind = "none" THEN File(write(config).lines) ELSE removed

\* conf.configure() as main calls it: r is [config, f, end]
main_configure(r, answers, env) ==
    IF r.end # "" THEN r
    ELSE LET c == configure(r.config, r.f, answers, env)
         IN IF c.exit THEN [r EXCEPT !.end = "exit"]
            ELSE [r EXCEPT !.config = c.config, !.f.configured = TRUE]

\* "Reconfigure if config file has issues": does the try block of main call
\* conf.configure()?  (theme_variants returns a bool, never None)
has_issues(config) ==
    \/ "theme" \notin config.keys      \* KeyError
    \/ "color" \notin config.keys      \* KeyError
    \/ "enabled" \notin config.keys    \* KeyError
    \/ config.enabled = <<>>

\* "Whether or not to configure": r is [config, file, f, end]; end is "" while
\* main goes on, "exit" after sys.exit(), "crash" after an uncaught exception
main_first(r, answers, env) ==
    IF r.end = "" /\ (r.file.kind # "file" \/ r.f.reconfigure)
    THEN LET c == configure(r.config, [r.f EXCEPT !.configure_all = TRUE], answers, env)
         IN IF c.exit THEN [r EXCEPT !.end = "exit"]
            ELSE [config |-> c.config,
                  file |-> IF r.file.kind = "file" THEN NoFile ELSE r.file,
                  f |-> [r.f EXCEPT !.configure_all = TRUE, !.configured = TRUE],
                  end |-> ""]
    ELSE r

\* color_scheme = conf.theme_variants(config['theme']), when config has a theme
main_color_scheme(r, env) ==
    IF r.end = "" /\ "theme" \in r.config.keys
    THEN [r EXCEPT !.config = theme_variants(r.config, r.config.theme, env).config]
    ELSE r

\* "Reconfigure if config file has issues"
main_issues(r, answers, env) ==
    IF r.end = "" /\ has_issues(r.config)
    THEN main_configure([r EXCEPT !.f.configure_all = TRUE], answers, env)
    ELSE r

\* "Reconfigure color, theme variant, or syntax highlighting if user wants to"
main_narrow(r, answers, env) ==
    IF r.end = "" /\ (r.f.update_color \/ r.f.update_theme \/ r.f.update_syntax
                      \/ r.f.update_settings)
    THEN main_configure(r, answers, env)
    ELSE r

\* conf.write(config), config['suffix'] and config['variant']
main_write(r, w) ==
    IF r.end # "" THEN r
    ELSE IF w.exc # "" \/ "color_scheme" \notin r.config.keys
    THEN [r EXCEPT !.file = File(w.lines), !.end = "crash"]
    ELSE [r EXCEPT !.file = File(w.lines),
                   !.config.suffix = IF r.config.color_scheme = "prefer-dark" THEN "-dark" ELSE "",
                   !.config.variant = IF r.config.color_scheme = "prefer-dark" THEN "dark"
                                      ELSE "light"]

main_written(r) == main_write(r, write(r.config))

\* "Move old config file": OLD_CONFIG is moved to CONFIG_FILE when it is a file
\* and CONFIG_FILE is not; into CONFIG_FILE when that is a directory
move_old(legacy, file) ==
    IF legacy.kind = "file" /\ file.kind # "file"
    THEN [file |-> IF file.kind = "dir" THEN file ELSE legacy, legacy |-> NoFile]
    ELSE [file |-> file, legacy |-> legacy]

\* main from "conf.read()" to "config['variant'] = ...": c is the record
\* conf.read() left
main_start(c, file, env, f0, answers) ==
    main_written(
        main_narrow(
            main_issues(
                main_color_scheme(
                    main_first([config |-> c,
                                file |-> IF c.exc # "" THEN file
                                         ELSE move_old(env.legacy, file).file,
                                f |-> f0,
                                end |-> IF c.exc # "" THEN "crash" ELSE ""],
                               answers, env),
                    env),
                answers, env),
            answers, env))

-----------------------------------------------------------------------------
(* The installers: the test each _install makes before it builds *)

\* 'git rev-parse --short HEAD' where InstallThread.get_version has 'git rev-parse HEAD'
get_version_short(repo, group) == SubSeq(repo[group], 1, 7)

\* InstallThread.get_version: 'git rev-parse HEAD' in the submodule of the group
get_version(repo, group) == repo[group]

host_changed(now, before) == \E i \in 1..Len(now) : ~InSeq(now[i], before)

\* the test of InstallDgAdwGtk3._install with the last operand of InstallDgYaru's
stale_adw_gtk3_gnome(config, f, version) ==
    \/ version # config.version["dg-adw-gtk3"] \/ f.configure_all \/ f.force
    \/ config.old_gnome # config.desktop_versions["gnome"]

stale_adw_gtk3(config, f, version) ==
    version # config.version["dg-adw-gtk3"] \/ f.configure_all \/ f.force

\* the test of InstallDgYaru._install without its first operand
stale_yaru_any_version(config, f, version) ==
    \/ f.configure_all \/ f.force
    \/ config.old_gnome # config.desktop_versions["gnome"]

\* the test of InstallDgYaru._install without its last operand
stale_yaru_any_gnome(config, f, version) ==
    version # config.version["dg-yaru"] \/ f.configure_all \/ f.force

stale_yaru(config, f, version) ==
    \/ version # config.version["dg-yaru"] \/ f.configure_all \/ f.force
    \/ config.old_gnome # config.desktop_versions["gnome"]

\* config['old_gnome'] raises KeyError in the thread when no 'gnome' line was
\* read and nothing before it in the "or" chain is true
yaru_key_error(config, f, version) ==
    /\ ~(version # config.version["dg-yaru"] \/ f.configure_all \/ f.force)
    /\ "old_gnome" \notin config.keys

stale_libadwaita(config, f, version) ==
    \/ version # config.version["dg-libadwaita"] \/ f.configure_all \/ f.force
    \/ f.update_color \/ f.update_theme

stale_firefox(config, f, version) ==
    \/ version # config.version["dg-firefox-theme"] \/ f.configure_all \/ f.force
    \/ f.update_color \/ f.update_settings
    \/ host_changed(config.firefox, config.old_firefox)

stale_vscode(config, f, version) ==
    \/ version # config.version["dg-vscode-adwaita"] \/ f.configure_all \/ f.force
    \/ f.update_syntax
    \/ host_changed(config.vscode, config.old_vscode)

is_stale(group, config, f, version) ==
    CASE group = "dg-adw-gtk3" -> stale_adw_gtk3(config, f, version)
      [] group = "dg-yaru" -> stale_yaru(config, f, version)
      [] group = "dg-libadwaita" -> stale_libadwaita(config, f, version)
      [] group = "dg-firefox-theme" -> stale_firefox(config, f, version)
      [] group = "dg-vscode-adwaita" -> stale_vscode(config, f, version)

\* main: yaru_parts, the parts of dg-yaru that are enabled, in dict order
yaru_parts(config) == SelectSeq(Parts("dg-yaru"), LAMBDA p : InSeq(p, config.enabled))

\* InstallDgYaru._install: the options of meson
yaru_options(parts, config) ==
    LET on == [i \in 1..Len(parts) |-> "-D" \o parts[i] \o "=true"]
        rest == SelectSeq(Parts("dg-yaru"), LAMBDA p : ~InSeq(p, parts))
        off == [i \in 1..Len(rest) |-> "-D" \o rest[i] \o "=false"]
        \* 'unity' in desktop_versions: a test on the keys of the dict
        panel == IF "unity" \in DOMAIN config.desktop_versions
                    \/ "mate" \in DOMAIN config.desktop_versions
                 THEN <<"-Dpanel-icons=true">> ELSE <<"-Dpanel-icons=false">>
        gnome_version == config.desktop_versions["gnome"]
        shell == IF gnome_version # None
                 THEN <<"-Dgnome-shell-version=" \o PyStr(gnome_version)>> ELSE <<>>
    IN on \o off \o panel \o shell

\* the options the installer of a group that keeps them gives to meson
build_options(group, config, rebuild) ==
    IF group = "dg-yaru" /\ rebuild THEN yaru_options(yaru_parts(config), config) ELSE <<>>

\* the test of main that decides whether the installer of a group runs
group_enabled(group, config) ==
    CASE group = "dg-adw-gtk3" -> InSeq("gtk3", config.enabled) \/ InSeq("gtk4-libadwaita", config.enabled)
      [] group = "dg-yaru" -> \E i \in 1..Len(Parts("dg-yaru")) : InSeq(Parts("dg-yaru")[i], config.enabled)
      [] group = "dg-libadwaita" -> InSeq("gtk4", config.enabled)
      [] group = "dg-firefox-theme" -> InSeq("firefox", config.enabled)
      [] group = "dg-vscode-adwaita" -> InSeq("vscode", config.enabled)
      [] group = "qualia-gtk-theme-snap" -> InSeq("snap", config.enabled)

\* main without "config['<group>_version'] = <installer>.get_version()"
record_version_not(config, group, version) == config

\* main: config['<group>_version'] = <installer>.get_version()
record_version(config, group, version) == [config EXCEPT !.version[group] = version]

\* does _install of the group call self.updated() after it built?
sets_updated(group) == group # "dg-firefox-theme"

-----------------------------------------------------------------------------
(* The hosts, the users and the command lines the model runs the script with *)

RECURSIVE Rep(_, _)
Rep(c, n) == IF n = 0 THEN "" ELSE c \o Rep(c, n - 1)

\* two commit hashes, as 'git rev-parse HEAD' prints them
TokenA == Rep("a", 40)
TokenB == Rep("b", 40)

\* the keys of FIREFOX_DIR and VSCODE_DIR (paths.py)
FirefoxVariants == <<"standard", "flatpak">>
VscodeVariants == <<"code">>

NoDesktop == [de \in Desktops |-> None]

BaseEnv ==
    [desktop_versions |-> NoDesktop, firefox |-> <<>>, vscode |-> <<>>, snap |-> FALSE,
     meson |-> TRUE, gsettings |-> TRUE, xfconf |-> FALSE, gnome_extensions |-> "absent",
     color_scheme |-> "default", online |-> FALSE, legacy |-> NoFile]

\* the hosts of the runs of the whole script
Envs ==
    {[BaseEnv EXCEPT !.desktop_versions = [NoDesktop EXCEPT !["gnome"] = 42],
                     !.firefox = SubSeq(FirefoxVariants, 1, 1),
                     !.gnome_extensions = "listed"],
     [BaseEnv EXCEPT !.desktop_versions = [NoDesktop EXCEPT !["xfce"] = 4, !["mate"] = 1],
                     !.xfconf = TRUE, !.vscode = VscodeVariants, !.snap = TRUE, !.online = TRUE]}

\* what may have changed on the host when the script is started again: GNOME
\* upgraded, or Firefox installed from Flatpak as well
EnvsAfter(e) ==
    {e} \cup (IF e.desktop_versions["gnome"] = 42 /\ Len(e.firefox) = 1
              THEN {[e EXCEPT !.desktop_versions["gnome"] = 43],
                    [e EXCEPT !.firefox = FirefoxVariants]}
              ELSE {})

\* the live values of the settings before the first run: the defaults of the
\* desktop, the one of the user-theme extension being the empty string
InitValues ==
    [k \in StoreKeys |->
        IF k = StoreKey("org.gnome.shell.extensions.user-theme", "name") THEN "" ELSE "Adwaita"]

NoFlags ==
    [reconfigure |-> FALSE, force |-> FALSE, no_update |-> FALSE, update_color |-> FALSE,
     update_theme |-> FALSE, update_settings |-> FALSE, update_syntax |-> FALSE,
     configure_all |-> FALSE, configured |-> FALSE, updated |-> FALSE]

\* the command lines: no option, --force, --reconfigure, --accent
FlagChoices ==
    {NoFlags, [NoFlags EXCEPT !.force = TRUE], [NoFlags EXCEPT !.reconfigure = TRUE],
     [NoFlags EXCEPT !.update_color = TRUE]}

\* what the user of host e answers when asked: the color, the variant and the
\* parts wanted
AnswerChoices(e) ==
    IF e.desktop_versions["gnome"] # None
    THEN {[color |-> "orange", theme |-> "light",
           yes |-> {"gtk3", "gnome-shell", "icons", "firefox", "settings_theme"}]}
    ELSE {[color |-> "blue", theme |-> "dark",
           yes |-> {"gtk4", "xfwm4", "cursors", "vscode", "snap"}]}

\* the groups whose submodule has a new commit when the script is started again
PullChoices == {{}, {"dg-yaru"}}

Outcomes == {"ok", "nonzero", "oserror"}

-----------------------------------------------------------------------------
(* The state *)

VARIABLES
    disk,       \* CONFIG_FILE: [kind, lines]
    live,       \* the settings stores: setting -> value
    env,        \* the host: desktops, host directories, binaries, OLD_CONFIG
    pinned,     \* the commit the repository records for each submodule
    repo,       \* the commit checked out in each submodule
    config,     \* the dict of Config, while the script runs
    f,          \* the global flags of the script
    pc,         \* where main is; "idle", "done", "aborted", "crashed": no process
    run,        \* how many times the script was started
    outcome,    \* this run: what the installer of each group did
    decided,    \* this run: what each installer saw when it tested staleness,
                \* and the options it built
    pass,       \* the last enablement pass: what it read and set, how it ended
    genuine,    \* the (theme, desktop) pairs that ever held a snapshot not
                \* starting with 'qualia'
    threads     \* the threads of the installers: the InstallThread and the
                \* Spinner of each group, and the cursor of the terminal

vars == <<disk, live, env, pinned, repo, config, f, pc, run, outcome, decided, pass, genuine,
          threads>>

GroupSet == {Groups[i] : i \in 1..Len(Groups)}

\* No InstallThread was constructed and no Spinner started; the cursor of the
\* terminal is visible.
NoThreads ==
    [ main    |-> "before",
      install |-> [g \in GroupSet |-> "none"],
      spinner |-> [g \in GroupSet |-> "none"],
      cursor  |-> "shown",
      hid     |-> FALSE,
      verbose |-> FALSE ]

NoOutcome == [g \in GroupSet |-> "none"]

NoDecision ==
    [g \in VersionGroups |-> [made |-> FALSE, rebuild |-> FALSE, version |-> "", recorded |-> "",
                           options |-> <<>>]]

NoPass ==
    [made |-> FALSE, writes |-> <<>>, reads |-> {}, diag |-> <<>>, end |-> "",
     old_before |-> <<>>, live_before |-> [k \in StoreKeys |-> ""],
     old_after |-> <<>>,
     names |-> [t \in {DataThemes[i] : i \in 1..Len(DataThemes)} |-> NoneStr],
     desktop |-> "all", uninstalling |-> FALSE]

\* the pairs of a snapshot map whose value does not start with 'qualia'
GenuinePairs(old) ==
    {td \in {DataThemes[i] : i \in 1..Len(DataThemes)} \X Desktops :
        /\ HasSnap(old, td[1], td[2])
        /\ ~Snap(old, td[1], td[2]).islist
        /\ ~StartsWith(Snap(old, td[1], td[2]).val, "qualia")}

Init ==
    /\ disk = NoFile
    /\ live = InitValues
    /\ env \in Envs
    /\ pinned = [g \in VersionGroups |-> TokenA]
    /\ repo = [g \in VersionGroups |-> TokenA]
    /\ config = NewConfig(env)
    /\ f = NoFlags
    /\ pc = "idle"
    /\ run = 0
    /\ outcome = NoOutcome
    /\ decided = NoDecision
    /\ pass = NoPass
    /\ genuine = {}
    /\ threads = NoThreads

\* the process is gone, and its memory with it
ProcessEnds(how, e) ==
    /\ pc' = how
    /\ config' = NewConfig(e)
    /\ f' = NoFlags

Running == pc \notin {"idle", "done", "aborted", "crashed"}

\* the script is started on host e with flags f0: main down to the first
\* conf.write(config); c is the record conf.read() leaves
StartWith(e, c, f0, answers) ==
    LET r == main_start(c, disk, e, f0, answers) IN
    /\ ValidAnswers(answers, e)
    /\ env' = IF c.exc # "" THEN e ELSE [e EXCEPT !.legacy = move_old(e.legacy, disk).legacy]
    /\ disk' = r.file
    /\ IF r.end = ""
       THEN /\ pc' = "adw"
            /\ config' = r.config
            /\ f' = r.f
       ELSE ProcessEnds(IF r.end = "exit" THEN "done" ELSE "crashed", e)
    /\ genuine' = genuine \cup GenuinePairs(r.config.old)

\* the script is started: main down to "Install dg-adw-gtk3"; when it is not
\* the first time, the repository may have pulled the groups of one of pulls,
\* and the host may have become one of hosts
StartMain(pulls, hosts, flags) ==
    /\ ~Running
    /\ run < MaxRuns
    /\ run' = run + 1
    /\ \E pull \in (IF run = 0 THEN {{}} ELSE pulls) :
            pinned' = [g \in VersionGroups |-> IF g \in pull THEN TokenB ELSE pinned[g]]
    /\ \E e \in (IF run = 0 THEN {env} ELSE hosts) :
         LET c == read(NewConfig(e), disk, FALSE) IN
         \E f0 \in flags, answers \in AnswerChoices(e) : StartWith(e, c, f0, answers)
    /\ outcome' = NoOutcome
    /\ decided' = NoDecision
    /\ pass' = NoPass
    /\ UNCHANGED <<live, repo>>

StartRun == StartMain(PullChoices, EnvsAfter(env), FlagChoices) /\ UNCHANGED threads

\* main: "Install <group>", for a group with a version token
InstallGroup(g, here, next) ==
    /\ pc = here
    /\ IF ~group_enabled(g, config)
       THEN /\ pc' = next
            /\ outcome' = [outcome EXCEPT ![g] = "skipped"]
            /\ UNCHANGED <<disk, repo, config, f, decided>>
       ELSE \E res \in Outcomes :
            LET \* git submodule update --init, unless --no-update
                repo1 == IF f.no_update THEN repo ELSE [repo EXCEPT ![g] = pinned[g]]
                version == get_version(repo1, g)
                died == g = "dg-yaru" /\ yaru_key_error(config, f, version)
                rebuild == ~died /\ is_stale(g, config, f, version)
                config1 == record_version(config, g, version)
                w == write(config1)
            IN /\ res = "nonzero" => (rebuild \/ ~f.no_update)
               /\ res = "oserror" => rebuild
               /\ decided' = [decided EXCEPT ![g] = [made |-> TRUE, rebuild |-> rebuild,
                                                     version |-> version,
                                                     recorded |-> config.version[g],
                                                     options |-> build_options(g, config, rebuild)]]
               /\ IF res = "nonzero"
                  THEN \* run_command: os._exit(1)
                       /\ ProcessEnds("aborted", env)
                       /\ repo' = IF rebuild THEN repo1 ELSE repo
                       /\ outcome' = [outcome EXCEPT ![g] = "failed"]
                       /\ UNCHANGED disk
                  ELSE \* the thread has ended: config[g_version] = get_version(); conf.write
                       /\ repo' = repo1
                       /\ outcome' = [outcome EXCEPT ![g] =
                              IF died \/ res = "oserror" THEN "died"
                              ELSE IF rebuild THEN "built" ELSE "uptodate"]
                       /\ disk' = File(w.lines)
                       /\ IF w.exc # ""
                          THEN ProcessEnds("crashed", env)
                          ELSE /\ pc' = next
                               /\ config' = config1
                               /\ f' = [f EXCEPT !.updated =
                                          @ \/ (rebuild /\ res = "ok" /\ sets_updated(g))]
    /\ UNCHANGED <<live, env, pinned, run, pass, genuine, threads>>

InstallDgAdwGtk3 == InstallGroup("dg-adw-gtk3", "adw", "yaru")

InstallDgYaru == InstallGroup("dg-yaru", "yaru", "libadwaita")

InstallDgLibadwaita == InstallGroup("dg-libadwaita", "libadwaita", "firefox")

InstallDgFirefoxTheme == InstallGroup("dg-firefox-theme", "firefox", "vscode")

InstallDgVscodeAdwaita == InstallGroup("dg-vscode-adwaita", "vscode", "snap")

\* main: "Install snap theme" and "Symlink themes to /usr dir if using mate"
InstallQualiaGtkThemeSnap ==
    /\ pc = "snap"
    /\ \E res \in {"ok", "nonzero"} :
         LET snap == group_enabled("qualia-gtk-theme-snap", config) /\ env.online
             mate == config.desktop_versions["mate"] # None
         IN /\ res = "nonzero" => (snap \/ mate)
            /\ outcome' = [outcome EXCEPT !["qualia-gtk-theme-snap"] =
                              IF ~snap THEN "skipped" ELSE IF res = "ok" THEN "built" ELSE "failed"]
            /\ IF res = "nonzero"
               THEN ProcessEnds("aborted", env)
               ELSE pc' = "enable" /\ UNCHANGED <<config, f>>
    /\ UNCHANGED <<disk, live, env, pinned, repo, run, decided, pass, genuine, threads>>


\* what a pass leaves in the history variable
PassOf(st, cfg, before, names, desktop, uninstalling) ==
    [made |-> TRUE, writes |-> st.writes, reads |-> st.reads, diag |-> st.diag,
     end |-> IF st.exit THEN "exit" ELSE IF st.exc # "" THEN "crash" ELSE "",
     old_before |-> cfg.old, live_before |-> before, old_after |-> st.old,
     names |-> names, desktop |-> desktop, uninstalling |-> uninstalling]

\* main: "Enable Themes", "Update config file one last time", "Set color scheme"
EnableThemes ==
    /\ pc = "enable"
    /\ LET names == ThemeNamesOf(config)
           ncmd == enable_theme(config, names, live, env, "all", FALSE, 0).ncmd
       IN \E fail \in 0..ncmd :
            LET st == enable_theme(config, names, live, env, "all", FALSE, fail)
                config1 == [config EXCEPT !.old = st.old]
                w == write(config1)
            IN /\ live' = st.live
               /\ pass' = PassOf(st, config, live, names, "all", FALSE)
               /\ genuine' = genuine \cup GenuinePairs(st.old)
               /\ IF st.exit
                  THEN ProcessEnds("aborted", env) /\ UNCHANGED <<disk, env>>
                  ELSE IF st.exc # ""
                  THEN ProcessEnds("crashed", env) /\ UNCHANGED <<disk, env>>
                  ELSE /\ disk' = File(w.lines)
                       /\ IF w.exc # ""
                          THEN ProcessEnds("crashed", env) /\ UNCHANGED env
                          ELSE /\ pc' = "finish"
                               /\ config' = config1
                               /\ f' = f
                               \* gsettings set org.gnome.desktop.interface color-scheme
                               /\ env' = IF env.gsettings
                                         THEN [env EXCEPT !.color_scheme = config.color_scheme]
                                         ELSE env
    /\ UNCHANGED <<pinned, repo, run, outcome, decided, threads>>

\* main: "Remove old theme" and the log-out notice; then the script ends
Finish ==
    /\ pc = "finish"
    /\ \E res \in {"ok", "nonzero"} :
         ProcessEnds(IF res = "ok" THEN "done" ELSE "aborted", env)
    /\ UNCHANGED <<disk, live, env, pinned, repo, run, outcome, decided, pass, genuine, threads>>

Next ==
    \/ StartRun
    \/ InstallDgAdwGtk3
    \/ InstallDgYaru
    \/ InstallDgLibadwaita
    \/ InstallDgFirefoxTheme
    \/ InstallDgVscodeAdwaita
    \/ InstallQualiaGtkThemeSnap
    \/ EnableThemes
    \/ Finish

Spec == Init /\ [][Next]_vars

-----------------------------------------------------------------------------
(* The run of main: properties *)

\* main is past the install step of group g and the process is alive
Past(g) ==
    pc \in (CASE g = "dg-adw-gtk3" -> {"yaru", "libadwaita", "firefox", "vscode", "snap", "enable", "finish"}
              [] g = "dg-yaru" -> {"libadwaita", "firefox", "vscode", "snap", "enable", "finish"}
              [] g = "dg-libadwaita" -> {"firefox", "vscode", "snap", "enable", "finish"}
              [] g = "dg-firefox-theme" -> {"vscode", "snap", "enable", "finish"}
              [] g = "dg-vscode-adwaita" -> {"snap", "enable", "finish"})

\* the file holds the line '<group>_version: <token>'
OnDisk(g, token) == disk.kind = "file" /\ InSeq(g \o "_version: " \o token, disk.lines)

\* C7: whenever the install step of a group with a version token has completed
\* (its installer built it or found it up to date), the file on disk holds the
\* token the step read, at every later point of the run and after it; and
\* while main goes on, the record in memory holds it too.
C7_WriteAfterEachComponent ==
    \A g \in VersionGroups :
        outcome[g] \in {"built", "uptodate"} =>
            /\ OnDisk(g, decided[g].version)
            /\ Past(g) => config.version[g] = decided[g].version

\* C7: dg-adw-gtk3 has been built from a commit the file did not hold, and
\* main stands before the install step of dg-yaru
C7_Witness ==
    /\ pc = "yaru"
    /\ outcome["dg-adw-gtk3"] = "built"
    /\ decided["dg-adw-gtk3"].version # decided["dg-adw-gtk3"].recorded
    /\ OnDisk("dg-adw-gtk3", decided["dg-adw-gtk3"].version)

\* C9: when a yaru part is enabled, dg-yaru is rebuilt exactly when the commit
\* of the submodule differs from the recorded one, or configure_all or force
\* is set, or the recorded gnome version differs from the detected one; when
\* it is not rebuilt no build command runs and it is reported up to date.
C9_YaruStaleness ==
    (Past("dg-yaru") /\ decided["dg-yaru"].made) =>
        LET d == decided["dg-yaru"] IN
        /\ d.rebuild <=> \/ d.version # d.recorded
                         \/ f.configure_all
                         \/ f.force
                         \/ config.old_gnome # config.desktop_versions["gnome"]
        /\ d.rebuild => outcome["dg-yaru"] \in {"built", "died"}
        /\ ~d.rebuild => outcome["dg-yaru"] = "uptodate"

\* C9: dg-yaru has been rebuilt for the one reason that gnome was upgraded
\* since the last run
C9_Witness ==
    /\ Past("dg-yaru")
    /\ decided["dg-yaru"].made
    /\ decided["dg-yaru"].rebuild
    /\ decided["dg-yaru"].version = decided["dg-yaru"].recorded
    /\ ~f.configure_all /\ ~f.force
    /\ config.old_gnome = 42 /\ config.desktop_versions["gnome"] = 43

\* neither a narrow update flag nor a change of the variants of Firefox or
\* VS Code on the host asks for a rebuild
NothingNarrow ==
    /\ ~f.update_color /\ ~f.update_theme /\ ~f.update_settings /\ ~f.update_syntax
    /\ ~host_changed(config.firefox, config.old_firefox)
    /\ ~host_changed(config.vscode, config.old_vscode)

\* C10, as stated: a group whose token changed is rebuilt; a group whose token
\* and desktop identity are unchanged, with force and reconfigure false, is not.
C10_AsStated ==
    \A g \in VersionGroups :
        (Past(g) /\ decided[g].made) =>
            /\ decided[g].version # decided[g].recorded => decided[g].rebuild
            /\ ( /\ decided[g].version = decided[g].recorded
                 /\ config.old_gnome = config.desktop_versions["gnome"]
                 /\ ~f.force /\ ~f.configure_all ) => ~decided[g].rebuild

\* C10, amended: a group whose token changed is rebuilt; a group whose token
\* and desktop identity are unchanged, with force and reconfigure false, no
\* narrow update flag set and the variants of Firefox and VS Code on the host
\* unchanged, is not rebuilt.
C10_Staleness ==
    \A g \in VersionGroups :
        (Past(g) /\ decided[g].made) =>
            /\ decided[g].version # decided[g].recorded => decided[g].rebuild
            /\ ( /\ decided[g].version = decided[g].recorded
                 /\ config.old_gnome = config.desktop_versions["gnome"]
                 /\ ~f.force /\ ~f.configure_all
                 /\ NothingNarrow ) => ~decided[g].rebuild

\* C10: in one run dg-yaru was rebuilt because its submodule has a new
\* commit, and dg-adw-gtk3, whose commit is the recorded one, was not
C10_Witness ==
    /\ Past("dg-yaru")
    /\ decided["dg-yaru"].made
    /\ decided["dg-yaru"].recorded = TokenA
    /\ decided["dg-yaru"].version = TokenB
    /\ decided["dg-yaru"].rebuild
    /\ decided["dg-adw-gtk3"].made
    /\ decided["dg-adw-gtk3"].version = decided["dg-adw-gtk3"].recorded
    /\ ~decided["dg-adw-gtk3"].rebuild
    /\ ~f.force /\ ~f.configure_all /\ NothingNarrow

\* no flag asks for a rebuild
NoRebuildFlag ==
    /\ ~f.force /\ ~f.configure_all
    /\ ~f.update_color /\ ~f.update_theme /\ ~f.update_settings /\ ~f.update_syntax

\* C11, as stated: with force, configure_all and the narrow update flags false,
\* a group whose own token is unchanged is not rebuilt, whatever changed for
\* the other groups; a change of the gnome version rebuilds dg-yaru only.
C11_AsStated ==
    \A g \in VersionGroups :
        ( /\ Past(g) /\ decided[g].made
          /\ NoRebuildFlag
          /\ decided[g].version = decided[g].recorded
          /\ g = "dg-yaru" => config.old_gnome = config.desktop_versions["gnome"] )
            => ~decided[g].rebuild

\* C11, amended: the same, for a run that finds on the host the variants of
\* Firefox and VS Code that the file records.
C11_GroupIsolation ==
    \A g \in VersionGroups :
        ( /\ Past(g) /\ decided[g].made
          /\ NoRebuildFlag
          /\ ~host_changed(config.firefox, config.old_firefox)
          /\ ~host_changed(config.vscode, config.old_vscode)
          /\ decided[g].version = decided[g].recorded
          /\ g = "dg-yaru" => config.old_gnome = config.desktop_versions["gnome"] )
            => ~decided[g].rebuild

\* C11: gnome was upgraded and dg-yaru has a new commit: dg-yaru was rebuilt,
\* dg-adw-gtk3 and dg-firefox-theme, whose commits are the recorded ones, were not
C11_Witness ==
    /\ Past("dg-firefox-theme")
    /\ NoRebuildFlag
    /\ config.old_gnome = 42 /\ config.desktop_versions["gnome"] = 43
    /\ decided["dg-yaru"].made /\ decided["dg-yaru"].rebuild
    /\ decided["dg-yaru"].version # decided["dg-yaru"].recorded
    /\ decided["dg-adw-gtk3"].made /\ ~decided["dg-adw-gtk3"].rebuild
    /\ decided["dg-adw-gtk3"].version = decided["dg-adw-gtk3"].recorded
    /\ decided["dg-firefox-theme"].made /\ ~decided["dg-firefox-theme"].rebuild

\* the file holds a snapshot line of the pair (theme, de)
SnapshotOnDisk(theme, de) ==
    /\ disk.kind = "file"
    /\ \E i \in 1..Len(disk.lines) : StartsWith(disk.lines[i], "old_" \o theme \o "_" \o de \o ": ")

\* C26, as stated: when the pass of enable_theme of a run has set a setting,
\* and every installer of the run ended without failure, 'updated' is true
\* when main comes to the log-out notice, also in a run that rebuilt no
\* component.
C26_AsStated ==
    ( /\ pc = "finish" /\ pass.made /\ pass.writes # <<>>
      /\ \A g \in GroupSet : outcome[g] \in {"skipped", "uptodate", "built"} ) => f.updated

\* no element of the list appears in it twice
NoDuplicates(list) == \A i, j \in 1..Len(list) : list[i] = list[j] => i = j

\* C13, as stated: in a run that does not reconfigure, the enabled list that
\* Config.read made of the file this program wrote holds each identifier at
\* most once (reading the 'firefox:' line adds no 'firefox' to it).
C13_AsStated == (Running /\ ~f.configured) => NoDuplicates(config.enabled)

\* the text of a line of the file after its first ': '
ValueOf(line) ==
    LET i == FindFrom(line, ": ", 1)
    IN IF i = 0 THEN "" ELSE SubSeq(line, i + 2, Len(line))

\* the lines of the file that hold the version token of group g
VersionLinesOnDisk(g) ==
    IF disk.kind = "file"
    THEN {i \in 1..Len(disk.lines) : StartsWith(disk.lines[i], g \o "_version: ")}
    ELSE {}

\* C14: every version token, in the record in memory and in the file Config.write
\* left, is the empty string or 40 characters long (the probe 'git rev-parse
\* HEAD' prints 40 characters).
C14_VersionTokens ==
    \A g \in VersionGroups :
        /\ Len(config.version[g]) \in {0, 40}
        /\ \A i \in VersionLinesOnDisk(g) : Len(ValueOf(disk.lines[i])) \in {0, 40}

\* C14, its case: the file holds a token of 40 characters that an installer
\* recorded, next to the empty token of a group that was never built.
C14_Witness ==
    /\ Running
    /\ \E g \in VersionGroups : decided[g].made /\ decided[g].rebuild /\ Past(g)
           /\ Len(config.version[g]) = 40
           /\ \E i \in VersionLinesOnDisk(g) : Len(ValueOf(disk.lines[i])) = 40
    /\ \E g \in VersionGroups :
           /\ config.version[g] = ""
           /\ \E i \in VersionLinesOnDisk(g) : ValueOf(disk.lines[i]) = ""

\* the lines of the file that hold a snapshot
OldLinesOnDisk ==
    IF disk.kind = "file"
    THEN {i \in 1..Len(disk.lines) : StartsWith(disk.lines[i], "old_")}
    ELSE {}

\* the snapshots of the record that Config.write does not keep
NotKept(old) ==
    {td \in {DataThemes[i] : i \in 1..Len(DataThemes)} \X Desktops :
        /\ HasSnap(old, td[1], td[2])
        /\ ~Snap(old, td[1], td[2]).islist
        /\ \/ Snap(old, td[1], td[2]).val = ""
           \/ StartsWith(Snap(old, td[1], td[2]).val, "qualia")}

\* C19: every 'old_<theme>_<desktop>' line of the file has a value that is not
\* empty and does not start with 'qualia'; and while the file is what
\* Config.write makes of the record in memory, it has no line for a snapshot
\* of the record that is empty or starts with 'qualia'.
C19_GenuineSnapshots ==
    /\ \A i \in OldLinesOnDisk :
           ValueOf(disk.lines[i]) # "" /\ ~StartsWith(ValueOf(disk.lines[i]), "qualia")
    /\ (Running /\ disk.kind = "file" /\ disk.lines = write(config).lines) =>
           \A td \in NotKept(config.old) : ~SnapshotOnDisk(td[1], td[2])

\* C19, its case: Config.write has written a record that holds a snapshot it
\* keeps and a snapshot it does not keep.
C19_Witness ==
    /\ Running /\ disk.kind = "file" /\ disk.lines = write(config).lines
    /\ NotKept(config.old) # {}
    /\ OldLinesOnDisk # {}

\* C1, as stated: a pair whose snapshot once held a value that does not start
\* with 'qualia' never holds one that does, in that run or in a later one.
C1_AsStated ==
    \A td \in genuine :
        (Running /\ HasSnap(config.old, td[1], td[2]) /\ ~Snap(config.old, td[1], td[2]).islist)
            => ~StartsWith(Snap(config.old, td[1], td[2]).val, "qualia")

\* C3, as stated: when run_command ends the process in the middle of the pass
\* of enable_theme, the file holds a snapshot of every pair whose setting the
\* pass had already changed from a value that Config.write keeps.
C3_AsStated ==
    (pc = "aborted" /\ pass.made /\ pass.end = "exit") =>
        \A i \in 1..Len(pass.writes) :
            (pass.writes[i].was # "" /\ ~StartsWith(pass.writes[i].was, "qualia"))
                => SnapshotOnDisk(pass.writes[i].theme, pass.writes[i].de)

\* C6, as stated: while the file is what Config.write makes of the record in
\* memory, Config.read on the same host gives back the color, the variant,
\* the enabled list, the version tokens and the snapshots of that record.
C6_AsStated ==
    (Running /\ disk = File(write(config).lines) /\ write(config).exc = "") =>
        LET back == read(NewConfig(env), disk, FALSE) IN
        /\ back.color = config.color
        /\ back.theme = config.theme
        /\ back.enabled = config.enabled
        /\ back.version = config.version
        /\ back.old = config.old

\* C8, as stated: when the install action of a group fails, whatever the cause,
\* the process ends there and the file holds no token for the group but the
\* one it held before.
C8_AsStated ==
    \A g \in VersionGroups :
        outcome[g] \in {"failed", "died"} =>
            /\ pc = "aborted"
            /\ OnDisk(g, decided[g].version) => decided[g].version = decided[g].recorded

-----------------------------------------------------------------------------
(* The enablement engine alone: Enable(config, verbose, **kwargs) is built   *)
(* on a record, a host and live settings drawn from the sets below, and      *)
(* enable_theme is called on it, then called again.                          *)

\* the desktops of the hosts of the engine
EnableDesktops ==
    {[NoDesktop EXCEPT !["gnome"] = 43],
     [NoDesktop EXCEPT !["gnome"] = 42, !["unity"] = 7],
     [NoDesktop EXCEPT !["unity"] = 7],
     [NoDesktop EXCEPT !["cinnamon"] = 5, !["budgie"] = 10, !["xfce"] = 4],
     [NoDesktop EXCEPT !["mate"] = 1, !["xfce"] = 4]}

\* the binaries of the hosts of the engine: [gsettings, xfconf, gnome_extensions]
EnableTools ==
    {<<TRUE, TRUE, "listed">>, <<TRUE, FALSE, "unlisted">>, <<TRUE, TRUE, "absent">>,
     <<FALSE, TRUE, "listed">>, <<TRUE, TRUE, "error">>}

EnableEnvs ==
    {[BaseEnv EXCEPT !.desktop_versions = dv, !.gsettings = t[1], !.xfconf = t[2],
                     !.gnome_extensions = t[3]] : dv \in EnableDesktops, t \in EnableTools}

\* config['enabled'] of the records of the engine
EnableEnabled ==
    {<<"gtk3", "icons">>, <<"gnome-shell", "xfwm4", "cursors">>,
     <<"gtk3", "cinnamon-shell", "metacity", "icons", "sounds">>}

\* config['old'] of the records of the engine
EnableOld ==
    {<<>>,
     <<[theme |-> "gtk3", des |-> <<[de |-> "gnome", val |-> "Adwaita", islist |-> FALSE]>>]>>,
     <<[theme |-> "icons", des |-> <<[de |-> "gnome", val |-> "qualia-dark", islist |-> FALSE]>>],
       [theme |-> "cursors", des |-> <<[de |-> "xfce", val |-> "", islist |-> FALSE]>>]>>,
     <<[theme |-> "gtk3", des |-> <<[de |-> "xfce", val |-> "qualia", islist |-> FALSE]>>],
       [theme |-> "xfwm4", des |-> <<[de |-> "xfce", val |-> "Default", islist |-> FALSE]>>]>>}

\* the live value of every setting before the first pass
EnableValues == {"Adwaita", "", "qualia"}

\* the themes whose name is None in kwargs
EnableNoName == {{}, {"sounds", "xfwm4"}}

InitEnable ==
    /\ disk = NoFile
    /\ \E v \in EnableValues : live = [k \in StoreKeys |-> v]
    /\ env \in EnableEnvs
    /\ pinned = [g \in VersionGroups |-> TokenA]
    /\ repo = [g \in VersionGroups |-> TokenA]
    /\ \E enabled \in EnableEnabled, old \in EnableOld, color \in {"orange", "blue"},
          suffix \in {"", "-dark"}, none \in EnableNoName, desktop \in {"all", "gnome"},
          uninstalling \in BOOLEAN :
         /\ config = [NewConfig(env) EXCEPT !.enabled = enabled, !.old = old, !.color = color,
                                             !.suffix = suffix,
                                             !.keys = {"color", "enabled", "version"}]
         /\ pass = [NoPass EXCEPT
                      !.names = [t \in DOMAIN ThemeNamesOf(config) |->
                                    IF t \in none THEN NoneStr ELSE ThemeNamesOf(config)[t]],
                      !.desktop = desktop, !.uninstalling = uninstalling]
    /\ f = NoFlags
    /\ pc = "new"
    /\ run = 0
    /\ outcome = NoOutcome
    /\ decided = NoDecision
    /\ genuine = {}
    /\ threads = NoThreads

\* enable.enable_theme(desktop, uninstalling), from pc = here
EnablePass(here, next) ==
    /\ pc = here
    /\ LET ncmd == enable_theme(config, pass.names, live, env, pass.desktop,
                                pass.uninstalling, 0).ncmd
       IN \E fail \in 0..ncmd :
            LET st == enable_theme(config, pass.names, live, env, pass.desktop,
                                   pass.uninstalling, fail)
            IN /\ live' = st.live
               /\ pass' = PassOf(st, config, live, pass.names, pass.desktop, pass.uninstalling)
               /\ config' = [config EXCEPT !.old = st.old]
               /\ pc' = IF st.exit THEN "aborted" ELSE IF st.exc # "" THEN "crashed" ELSE next
    /\ UNCHANGED <<disk, env, pinned, repo, f, run, outcome, decided, genuine, threads>>

FirstPass == EnablePass("new", "once")

SecondPass == EnablePass("once", "twice")

NextEnable == FirstPass \/ SecondPass

SpecEnable == InitEnable /\ [][NextEnable]_vars

-----------------------------------------------------------------------------
(* The enablement engine alone: properties *)

\* the pass that has just been made ran to its end
PassDone == pc \in {"once", "twice"} /\ pass.made

\* the value of a setting when the i-th write of the pass was about to be made
LiveBefore(i, store) ==
    LET earlier == {j \in 1..(i - 1) : pass.writes[j].store = store}
    IN IF earlier = {} THEN pass.live_before[store]
       ELSE pass.writes[CHOOSE j \in earlier : \A k \in earlier : k <= j].name

\* the name enable_theme wants for (theme, de)
Desired(theme, de) ==
    IF theme = "icons" /\ de = "unity" /\ ~pass.uninstalling
    THEN pass.names["gtk3"]
    ELSE pass.names[theme]

\* C2, as stated: after a pass, every pair whose setting the pass changed has a
\* snapshot in the record, also when another desktop of the theme has one.
C2_AsStated ==
    PassDone =>
        \A i \in 1..Len(pass.writes) :
            HasSnap(pass.old_after, pass.writes[i].theme, pass.writes[i].de)

\* C4, as stated: a second pass with the same names, on the settings the first
\* pass left, writes no setting and leaves the snapshots that Config.write
\* keeps as they were.
C4_AsStated ==
    (pc = "twice" /\ pass.made) =>
        /\ pass.writes = <<>>
        /\ OldLines(pass.old_after) = OldLines(pass.old_before)

ShellStore == StoreKey("org.gnome.shell.extensions.user-theme", "name")

\* the pass came to the GNOME Shell theme: it is enabled (or uninstalling is
\* set) and a name is wanted for it
ShellWanted ==
    /\ InSeq("gnome-shell", config.enabled) \/ pass.uninstalling
    /\ pass.names["gnome-shell"] # NoneStr

\* the snapshots of a theme in a snapshot map
SnapsOf(old, theme) == IF HasTheme(old, theme) THEN ThemeDes(old, theme) ELSE <<>>

\* C23: enable_theme reads, snapshots or sets the GNOME Shell theme setting
\* only if gnome-extensions is there and lists the user-theme extension;
\* otherwise, when it comes to the GNOME Shell theme, it prints a diagnostic,
\* leaves the setting unread and unset and the snapshots of the theme as they
\* were, and goes on with the themes that follow (xfwm4 is read where Xfce
\* and xfconf-query are there).
C23_ShellPrecondition ==
    (pass.made /\ env.gnome_extensions # "listed") =>
        /\ ShellStore \notin pass.reads
        /\ \A i \in 1..Len(pass.writes) : pass.writes[i].theme # "gnome-shell"
        /\ SnapsOf(pass.old_after, "gnome-shell") = SnapsOf(pass.old_before, "gnome-shell")
        /\ (PassDone /\ ShellWanted) =>
              /\ \E i \in 1..Len(pass.diag) : pass.diag[i].theme = "gnome-shell"
              /\ ( /\ InSeq("xfwm4", config.enabled) \/ pass.uninstalling
                   /\ pass.names["xfwm4"] # NoneStr
                   /\ env.xfconf /\ config.desktop_versions["xfce"] # None )
                     => StoreKey("xfwm4", "/general/theme") \in pass.reads

\* C23, its case: the extension tool is missing, the GNOME Shell theme was
\* skipped with a diagnostic and the pass went on to xfwm4
C23_Witness ==
    /\ PassDone /\ ShellWanted
    /\ env.gnome_extensions # "listed"
    /\ \E i \in 1..Len(pass.diag) : pass.diag[i].theme = "gnome-shell"
    /\ StoreKey("xfwm4", "/general/theme") \in pass.reads
    /\ \E i \in 1..Len(pass.writes) : pass.writes[i].theme = "xfwm4"

\* C24: the name set for the icons under unity is the name of the GTK theme
\* when uninstalling is false and the name of the icon theme when it is true;
\* the name set for any other theme and desktop is the theme's own name.
C24_UnityIcons ==
    pass.made =>
        \A i \in 1..Len(pass.writes) :
            LET w == pass.writes[i] IN
            IF w.theme = "icons" /\ w.de = "unity"
            THEN w.name = IF pass.uninstalling THEN pass.names["icons"] ELSE pass.names["gtk3"]
            ELSE w.name = pass.names[w.theme]

\* C24, its case: a pass that is not uninstalling has set the icons of unity
\* to the name of the GTK theme, which is not the name of the icon theme, and
\* the icons of another desktop to the name of the icon theme
C24_Witness ==
    /\ PassDone /\ ~pass.uninstalling
    /\ pass.names["gtk3"] # pass.names["icons"]
    /\ \E i, j \in 1..Len(pass.writes) :
          /\ pass.writes[i].theme = "icons" /\ pass.writes[i].de = "unity"
          /\ pass.writes[i].name = pass.names["gtk3"]
          /\ pass.writes[j].theme = "icons" /\ pass.writes[j].de = "gnome"
          /\ pass.writes[j].name = pass.names["icons"]

\* C24, its other case: an uninstalling pass has set the icons of unity to the
\* name of the icon theme
C24_WitnessUninstalling ==
    /\ PassDone /\ pass.uninstalling
    /\ pass.names["gtk3"] # pass.names["icons"]
    /\ \E i \in 1..Len(pass.writes) :
          /\ pass.writes[i].theme = "icons" /\ pass.writes[i].de = "unity"
          /\ pass.writes[i].name = pass.names["icons"]

\* the pass comes to the stores of theme t: t is enabled (or uninstalling is
\* set), a name is wanted for it, and the test of the GNOME Shell theme passes
Reached(t) ==
    /\ InSeq(t, config.enabled) \/ pass.uninstalling
    /\ pass.names[t] # NoneStr
    /\ t = "gnome-shell" => env.gnome_extensions = "listed"

\* the pass has printed that `what` is missing for theme t
Diagnosed(t, what) == \E i \in 1..Len(pass.diag) : pass.diag[i] = [theme |-> t, what |-> what]

\* the desktops of theme t that the pass is asked for
AskedSchemas(t) ==
    {i \in 1..Len(data(pass.names)[t].schemas) :
        pass.desktop \in {"all", data(pass.names)[t].schemas[i].de}}

\* the pass has read the property of theme t, where Xfce has it
XfconfSideDone(t) ==
    (data(pass.names)[t].property # NoneStr /\ config.desktop_versions["xfce"] # None)
        => StoreKey(data(pass.names)[t].channel, data(pass.names)[t].property) \in pass.reads

\* the pass has read the key of theme t in the schema of every desktop asked
\* for that the host has
GsettingsSideDone(t) ==
    \A i \in AskedSchemas(t) :
        config.desktop_versions[data(pass.names)[t].schemas[i].de] # None
            => StoreKey(data(pass.names)[t].schemas[i].schema, data(pass.names)[t].key)
                   \in pass.reads

C25_WitnessXfconf ==
    /\ PassDone /\ env.gsettings /\ ~env.xfconf
    /\ Diagnosed("gtk3", "xfconf-query not found")
    /\ \E i \in 1..Len(pass.writes) : pass.writes[i].theme = "gtk3" /\ pass.writes[i].de # "xfce"

-----------------------------------------------------------------------------
(* The config record alone: a Config is built on a host, with a file (or a   *)
(* directory, or nothing) at CONFIG_FILE drawn from the sets below, and read, *)
(* configure, write and the start of main are called on it.                  *)

\* the lines the files are made of: lines that Config.write prints, and lines
\* of a file that was edited or written on another host
RecordLines ==
    {"color: orange", "color: ", "theme: auto", "theme: light",
     "enabled: gtk3", "enabled: gtk3 xfwm4", "enabled: xfwm4", "firefox: standard",
     "dg-yaru_version: " \o TokenA, "old_gtk3_gnome: Adwaita", "old_gtk3_xfce: Greybird",
     "old_gtk3: x", "garbage"}

\* the files: every sequence of at most MaxLines of these lines
RecordFiles == UNION {[1..n -> RecordLines] : n \in 0..MaxLines}

\* the hosts: GNOME 42 with Firefox, with gsettings and without it
RecordEnvs ==
    {[BaseEnv EXCEPT !.desktop_versions = [NoDesktop EXCEPT !["gnome"] = 42],
                     !.firefox = SubSeq(FirefoxVariants, 1, 1),
                     !.gnome_extensions = "listed"],
     [BaseEnv EXCEPT !.desktop_versions = [NoDesktop EXCEPT !["gnome"] = 42],
                     !.firefox = SubSeq(FirefoxVariants, 1, 1),
                     !.gnome_extensions = "listed", !.gsettings = FALSE]}

InitRecord ==
    /\ disk \in {NoFile, Dir} \cup {File(lines) : lines \in RecordFiles}
    /\ live = InitValues
    /\ env \in RecordEnvs
    /\ pinned = [g \in VersionGroups |-> TokenA]
    /\ repo = [g \in VersionGroups |-> TokenA]
    /\ config = NewConfig(env)
    /\ f = NoFlags
    /\ pc = "new"
    /\ run = 0
    /\ outcome = NoOutcome
    /\ decided = NoDecision
    /\ pass = NoPass
    /\ genuine = {}
    /\ threads = NoThreads

\* conf = Config(); conf.read()
RecordRead ==
    /\ pc = "new"
    /\ config' = read(config, disk, FALSE)
    /\ pc' = "read"
    /\ UNCHANGED <<disk, live, env, pinned, repo, f, run, outcome, decided, pass, genuine, threads>>

\* conf.configure(), every question asked
RecordConfigure ==
    /\ pc \in {"new", "read"} /\ config.exc = ""
    /\ \E answers \in AnswerChoices(env) :
         LET c == configure(config, [NoFlags EXCEPT !.configure_all = TRUE], answers, env) IN
         /\ ValidAnswers(answers, env)
         /\ ~c.exit
         /\ config' = c.config
    /\ f' = [NoFlags EXCEPT !.configure_all = TRUE, !.configured = TRUE]
    /\ pc' = "configured"
    /\ UNCHANGED <<disk, live, env, pinned, repo, run, outcome, decided, pass, genuine, threads>>

\* conf.write(config)
RecordWrite ==
    /\ pc \in {"read", "configured"} /\ config.exc = ""
    /\ disk' = write_file(disk, config)
    /\ pc' = IF write(config).exc = "" THEN "written" ELSE "crashed"
    /\ UNCHANGED <<live, env, pinned, repo, config, f, run, outcome, decided, pass, genuine, threads>>

\* conf.write(config), once more
RecordWriteAgain ==
    /\ pc = "written"
    /\ disk' = write_file(disk, config)
    /\ pc' = "written twice"
    /\ UNCHANGED <<live, env, pinned, repo, config, f, run, outcome, decided, pass, genuine, threads>>

\* main after conf.read(), down to config['variant'] = ...
RecordMain ==
    /\ pc = "read" /\ config.exc = ""
    /\ \E answers \in AnswerChoices(env) :
         LET r == main_start(config, disk, env, NoFlags, answers) IN
         /\ ValidAnswers(answers, env)
         /\ disk' = r.file
         /\ config' = r.config
         /\ f' = r.f
         /\ pc' = IF r.end = "" THEN "main" ELSE IF r.end = "exit" THEN "main exit"
                  ELSE "main crash"
    /\ env' = [env EXCEPT !.legacy = move_old(env.legacy, disk).legacy]
    /\ UNCHANGED <<live, pinned, repo, run, outcome, decided, pass, genuine, threads>>

NextRecord == RecordRead \/ RecordConfigure \/ RecordWrite \/ RecordWriteAgain \/ RecordMain

SpecRecord == InitRecord /\ [][NextRecord]_vars

-----------------------------------------------------------------------------
(* The config record alone: properties *)

\* every identifier of the list is a key of config['enableable']
Eligible(list, enableable) == \A i \in 1..Len(list) : InSeq(list[i], enableable)

\* C12, as stated: the record that Config.read or Config.configure returns,
\* and the record Config.write has written, has in its enabled list only
\* identifiers of config['enableable'], whether the 'enabled:' line of the
\* file had one entry or several.
C12_AsStated ==
    (pc \in {"read", "configured", "written", "written twice"} /\ config.exc = "")
        => Eligible(config.enabled, config.enableable)

\* C17, as stated: Config.read returns without raising, whatever the file holds.
C17_AsStated == (pc = "read" /\ disk.kind = "file") => config.exc = ""

\* main has gone from conf.read() to its first conf.write(config), or ended before
MainEnds == {"main", "main exit", "main crash"}

\* the record read is one the claim calls corrupt: no color, no theme, no
\* enabled list or an empty one, or a theme that theme_variants cannot resolve
Corrupt(c, e) ==
    \/ has_issues(c)
    \/ "theme" \in c.keys /\ ~theme_variants(c, c.theme, e).ok

\* C15, as stated: when the record read is corrupt, main runs the whole
\* configuration (configure_all is set) and goes on; it does not go on with the
\* record as read and it does not crash.
C15_AsStated ==
    [][(pc = "read" /\ pc' \in MainEnds /\ Corrupt(config, env))
           => (f'.configure_all /\ pc' = "main")]_vars

\* C16, as stated: main writes no record whose theme is 'auto' while
\* color_scheme is not resolved.
C16_AsStated ==
    ( /\ pc \in MainEnds
      /\ disk.kind = "file" /\ disk.lines = write(config).lines
      /\ InSeq("theme: auto", disk.lines) )
        => "color_scheme" \in config.keys

\* C18, as stated: Config.write called while CONFIG_FILE is a directory does
\* not end without an error with the directory gone and the file in its place.
C18_AsStated ==
    [][disk.kind = "dir" => ~(pc' = "written" /\ disk'.kind = "file")]_vars

\* the lines are in the order of Config.write: the heading, color, theme,
\* enabled, a blank line, gnome, firefox, vscode, a blank line, the version
\* tokens, a blank line, the snapshots
FixedOrder(lines) ==
    /\ Len(lines) >= 10
    /\ StartsWith(lines[2], "color: ")
    /\ StartsWith(lines[3], "theme: ")
    /\ StartsWith(lines[4], "enabled: ")
    /\ lines[5] = ""
    /\ StartsWith(lines[6], "gnome: ")
    /\ StartsWith(lines[7], "firefox: ")
    /\ StartsWith(lines[8], "vscode: ")
    /\ lines[9] = ""
    /\ \E k \in 10..Len(lines) :
          /\ lines[k] = ""
          /\ \A i \in 10..(k - 1) : Contains(lines[i], "_version: ")
          /\ \A i \in (k + 1)..Len(lines) : StartsWith(lines[i], "old_")

\* C20: a Config.write that ends without exception leaves the fields in the
\* fixed order, and a second Config.write of the same record leaves the file
\* as the first one left it.
C20_WriteDeterminism ==
    [][pc' \in {"written", "written twice"}
          => (FixedOrder(disk'.lines) /\ (pc = "written" => disk' = disk))]_vars

\* C20, its case: a record with a version token and a snapshot has been
\* written twice.
C20_Witness ==
    /\ pc = "written twice"
    /\ \E g \in VersionGroups :
          \E i \in VersionLinesOnDisk(g) : Len(ValueOf(disk.lines[i])) = 40
    /\ OldLinesOnDisk # {}

-----------------------------------------------------------------------------
(* Eligibility alone: Config() is built on a host drawn from the set below,  *)
(* and built again after some of the desktops of the host were removed.      *)

\* the hosts: every set of desktops (each at its first supported version),
\* Firefox there or not, VS Code there or not, snap there or not
EligibleEnvs ==
    {[BaseEnv EXCEPT !.desktop_versions =
                         [de \in Desktops |-> IF de \in D
                                              THEN CHOOSE v \in VERSIONS[de] :
                                                       \A w \in VERSIONS[de] : v <= w
                                              ELSE None],
                     !.firefox = fx, !.vscode = vs, !.snap = sn] :
        D \in SUBSET Desktops, fx \in {<<>>, FirefoxVariants},
        vs \in {<<>>, VscodeVariants}, sn \in BOOLEAN}

InitEligible ==
    /\ disk = NoFile
    /\ live = InitValues
    /\ env \in EligibleEnvs
    /\ pinned = [g \in VersionGroups |-> TokenA]
    /\ repo = [g \in VersionGroups |-> TokenA]
    /\ config = [NewConfig(BaseEnv) EXCEPT !.enableable = <<>>]
    /\ f = NoFlags
    /\ pc = "host"
    /\ run = 0
    /\ outcome = NoOutcome
    /\ decided = NoDecision
    /\ pass = NoPass
    /\ genuine = {}
    /\ threads = NoThreads

\* conf = Config()
EligibleBuild ==
    /\ pc = "host"
    /\ config' = NewConfig(env)
    /\ pc' = "built"
    /\ run' = 1
    /\ UNCHANGED <<disk, live, env, pinned, repo, f, outcome, decided, pass, genuine, threads>>

\* some desktops are removed from the host, and conf = Config() once more
EligibleRemove ==
    /\ pc = "built" /\ run = 1
    /\ \E gone \in SUBSET {de \in Desktops : env.desktop_versions[de] # None} :
         /\ gone # {}
         /\ \E e \in {[env EXCEPT !.desktop_versions =
                           [de \in Desktops |-> IF de \in gone THEN None ELSE @[de]]]} :
              /\ env' = e
              /\ config' = NewConfig(e)
    /\ run' = 2
    /\ UNCHANGED <<disk, live, pinned, repo, f, pc, outcome, decided, pass, genuine, threads>>

NextEligible == EligibleBuild \/ EligibleRemove

SpecEligible == InitEligible /\ [][NextEligible]_vars

-----------------------------------------------------------------------------
(* Eligibility alone: properties *)

\* the dependency of part p is met on host e
DependencyMet(p, e) ==
    CASE p = "gnome-shell" -> e.desktop_versions["gnome"] # None
      [] p = "cinnamon-shell" -> e.desktop_versions["cinnamon"] # None
      [] p = "ubuntu-unity" -> e.desktop_versions["unity"] # None
      [] p = "metacity" -> e.desktop_versions["mate"] # None
      [] p = "xfwm4" -> e.desktop_versions["xfce"] # None
      [] p = "firefox" -> Len(e.firefox) > 0
      [] p = "vscode" -> Len(e.vscode) > 0
      [] p = "snap" -> e.snap
      [] OTHER -> TRUE

\* C21: the keys get_enableable returns are the parts of the fixed universe
\* whose dependency is met on the host: a shell or window-manager part iff its
\* desktop is detected, firefox and vscode iff a host directory exists, snap
\* iff the snap binary exists, every other part always.
C21_EligibilityRule ==
    pc = "built" =>
        /\ \A i \in 1..Len(AllParts) :
              InSeq(AllParts[i], config.enableable) <=> DependencyMet(AllParts[i], env)
        /\ \A i \in 1..Len(config.enableable) : InSeq(config.enableable[i], AllParts)

\* C21, its case: a host where some dependencies are met and others are not
C21_Witness ==
    /\ pc = "built" /\ run = 1
    /\ env.desktop_versions["gnome"] # None /\ env.desktop_versions["xfce"] = None
    /\ Len(env.firefox) = 0 /\ Len(env.vscode) > 0 /\ env.snap
    /\ InSeq("gnome-shell", config.enableable) /\ ~InSeq("xfwm4", config.enableable)
    /\ ~InSeq("firefox", config.enableable) /\ InSeq("snap", config.enableable)

\* C22: with the host directories unchanged, the parts eligible after desktops
\* were removed are among the parts eligible before; and every eligible part
\* is a part of the fixed universe.
C22_NarrowsOnly ==
    [][pc' = "built" =>
          /\ \A i \in 1..Len(config'.enableable) : InSeq(config'.enableable[i], AllParts)
          /\ pc = "built" =>
                \A i \in 1..Len(config'.enableable) :
                    InSeq(config'.enableable[i], config.enableable)]_vars

\* C22, its case: desktops were removed and the eligible parts are fewer
C22_Witness ==
    /\ pc = "built" /\ run = 2
    /\ env.desktop_versions["gnome"] = None /\ env.desktop_versions["mate"] # None
    /\ ~InSeq("gnome-shell", config.enableable) /\ InSeq("metacity", config.enableable)

-----------------------------------------------------------------------------
(* The installers as threads: an InstallThread is started and joined in its  *)
(* constructor, the Spinner is a thread the installer starts when it builds  *)

MainOrder ==
    <<"dg-adw-gtk3", "dg-yaru", "dg-libadwaita", "dg-firefox-theme", "dg-vscode-adwaita",
      "qualia-gtk-theme-snap">>

\* where main is when it reaches the installer of a group, and after it
Place(g) ==
    CASE g = "dg-adw-gtk3" -> "adw"
      [] g = "dg-yaru" -> "yaru"
      [] g = "dg-libadwaita" -> "libadwaita"
      [] g = "dg-firefox-theme" -> "firefox"
      [] g = "dg-vscode-adwaita" -> "vscode"
      [] g = "qualia-gtk-theme-snap" -> "snap"

After(g) ==
    CASE g = "dg-adw-gtk3" -> "yaru"
      [] g = "dg-yaru" -> "libadwaita"
      [] g = "dg-libadwaita" -> "firefox"
      [] g = "dg-firefox-theme" -> "vscode"
      [] g = "dg-vscode-adwaita" -> "snap"
      [] g = "qualia-gtk-theme-snap" -> "enable"

\* Thread.is_alive()
is_alive(state) == state \notin {"none", "ended"}

\* self.join() returns
join_returns_at_once(t, g) == TRUE

join_returns(t, g) == ~is_alive(t.install[g])

\* the Spinner leaves "while self.process.is_alive()"
process_ended_never(t, g) == FALSE

process_ended(t, g) == ~is_alive(t.install[g])

\* "\033[?25h" at the end of Spinner._msg
show_cursor(t) == [t EXCEPT !.cursor = "shown"]

\* the installers that start a Spinner when they build
has_spinner(g) == g \in {"dg-adw-gtk3", "dg-yaru"}

\* the script is started on the same host and repository, with or without
\* --force and --verbose; the terminal is as the last process left it
ThreadsStartRun ==
    /\ StartMain({{}}, {env}, {NoFlags, [NoFlags EXCEPT !.force = TRUE]})
    /\ \E v \in BOOLEAN :
         threads' = [NoThreads EXCEPT !.verbose = v, !.cursor = threads.cursor]

\* main reaches the installer of a group with a version token: the test of
\* main, then InstallThread.__init__ down to self.start()
ThreadStart(g) ==
    /\ pc = Place(g)
    /\ threads.main = "before"
    /\ IF ~group_enabled(g, config)
       THEN /\ pc' = After(g)
            /\ outcome' = [outcome EXCEPT ![g] = "skipped"]
            /\ UNCHANGED threads
       ELSE /\ threads' = [threads EXCEPT !.main = "joining", !.install[g] = "running"]
            /\ UNCHANGED <<pc, outcome>>
    /\ UNCHANGED <<disk, live, env, pinned, repo, config, f, run, decided, pass, genuine>>

\* the install thread: _install down to the staleness test; a stale group
\* starts its Spinner if it has one, a fresh one prints that it is up to date
\* and ends
InstallBegin(g) ==
    /\ Running
    /\ threads.install[g] = "running"
    /\ ~decided[g].made
    /\ \E res \in {"ok", "nonzero"} :
         LET repo1 == IF f.no_update THEN repo ELSE [repo EXCEPT ![g] = pinned[g]]
             version == get_version(repo1, g)
             died == g = "dg-yaru" /\ yaru_key_error(config, f, version)
             rebuild == ~died /\ is_stale(g, config, f, version)
         IN /\ res = "nonzero" => ~f.no_update
            /\ IF res = "nonzero"
               THEN \* run_command: os._exit(1)
                    /\ ProcessEnds("aborted", env)
                    /\ outcome' = [outcome EXCEPT ![g] = "failed"]
                    /\ UNCHANGED <<repo, decided, threads>>
               ELSE /\ repo' = repo1
                    /\ decided' = [decided EXCEPT ![g] = [made |-> TRUE, rebuild |-> rebuild,
                                                          version |-> version,
                                                          recorded |-> config.version[g],
                                                          options |-> build_options(g, config, rebuild)]]
                    /\ outcome' = [outcome EXCEPT ![g] =
                           IF died THEN "died" ELSE IF rebuild THEN "none" ELSE "uptodate"]
                    /\ threads' = IF ~rebuild
                                  THEN [threads EXCEPT !.install[g] = "ended"]
                                  ELSE IF has_spinner(g)
                                  THEN [threads EXCEPT !.spinner[g] = "checking"]
                                  ELSE threads
                    /\ UNCHANGED <<pc, config, f>>
    /\ UNCHANGED <<disk, live, env, pinned, run, pass, genuine>>

\* the install thread: the commands of the build, then self.updated()
InstallBuild(g) ==
    /\ Running
    /\ threads.install[g] = "running"
    /\ decided[g].made
    /\ \E res \in Outcomes :
         IF res = "nonzero"
         THEN \* run_command: os._exit(1)
              /\ ProcessEnds("aborted", env)
              /\ outcome' = [outcome EXCEPT ![g] = "failed"]
              /\ UNCHANGED threads
         ELSE /\ outcome' = [outcome EXCEPT ![g] = IF res = "ok" THEN "built" ELSE "died"]
              /\ threads' = [threads EXCEPT !.install[g] = "ended"]
              /\ f' = [f EXCEPT !.updated = @ \/ (res = "ok" /\ sets_updated(g))]
              /\ UNCHANGED <<pc, config>>
    /\ UNCHANGED <<disk, live, env, pinned, repo, run, decided, pass, genuine>>

\* the Spinner: "while self.process.is_alive()"
SpinnerCheck(g) ==
    /\ Running
    /\ threads.spinner[g] = "checking"
    /\ IF process_ended(threads, g)
       THEN threads' = [threads EXCEPT !.spinner[g] = IF threads.verbose THEN "ended" ELSE "last"]
       ELSE /\ ~threads.verbose
            /\ threads' = [threads EXCEPT !.spinner[g] = "drawing"]
    /\ UNCHANGED <<disk, live, env, pinned, repo, config, f, pc, run, outcome, decided, pass,
                   genuine>>

\* the Spinner: the four writes of "for cursor in '|/-\\'", each with "\033[?25l"
SpinnerDraw(g) ==
    /\ Running
    /\ threads.spinner[g] = "drawing"
    /\ threads' = [threads EXCEPT !.cursor = "hidden", !.hid = TRUE,
                                  !.spinner[g] = "checking"]
    /\ UNCHANGED <<disk, live, env, pinned, repo, config, f, pc, run, outcome, decided, pass,
                   genuine>>

\* the Spinner: the last write of _msg, with "\033[?25h"
SpinnerEnd(g) ==
    /\ Running
    /\ threads.spinner[g] = "last"
    /\ threads' = [show_cursor(threads) EXCEPT !.spinner[g] = "ended"]
    /\ UNCHANGED <<disk, live, env, pinned, repo, config, f, pc, run, outcome, decided, pass,
                   genuine>>

SpinnerStep(g) == SpinnerCheck(g) \/ SpinnerDraw(g) \/ SpinnerEnd(g)

\* InstallThread.__init__: self.join() returns
ThreadJoin(g) ==
    /\ pc = Place(g)
    /\ threads.main = "joining"
    /\ join_returns(threads, g)
    /\ threads' = [threads EXCEPT !.main = "waiting"]
    /\ UNCHANGED <<disk, live, env, pinned, repo, config, f, pc, run, outcome, decided, pass,
                   genuine>>

\* InstallThread.__init__ leaves its last loop and returns; main:
\* config['<group>_version'] = <installer>.get_version(); conf.write(config)
ThreadReturn(g) ==
    /\ pc = Place(g)
    /\ threads.main = "waiting"
    /\ ~is_alive(threads.spinner[g])
    /\ LET config1 == record_version(config, g, get_version(repo, g))
           w == write(config1)
       IN /\ disk' = File(w.lines)
          /\ threads' = [threads EXCEPT !.main = "before"]
          /\ IF w.exc # ""
             THEN ProcessEnds("crashed", env)
             ELSE pc' = After(g) /\ config' = config1 /\ f' = f
    /\ UNCHANGED <<live, env, pinned, repo, run, outcome, decided, pass, genuine>>

\* main: "Install snap theme": the test of main and the request to
\* snapcraft.io, then InstallThread.__init__ down to self.start(); without the
\* snap, "Symlink themes to /usr dir if using mate"
SnapStart ==
    /\ pc = "snap"
    /\ threads.main = "before"
    /\ IF group_enabled("qualia-gtk-theme-snap", config) /\ env.online
       THEN /\ threads' = [threads EXCEPT !.main = "joining",
                                         !.install["qualia-gtk-theme-snap"] = "running"]
            /\ UNCHANGED <<pc, config, f, outcome>>
       ELSE \E res \in {"ok", "nonzero"} :
            /\ res = "nonzero" => config.desktop_versions["mate"] # None
            /\ outcome' = [outcome EXCEPT !["qualia-gtk-theme-snap"] = "skipped"]
            /\ IF res = "nonzero"
               THEN ProcessEnds("aborted", env)
               ELSE pc' = "enable" /\ UNCHANGED <<config, f>>
            /\ UNCHANGED threads
    /\ UNCHANGED <<disk, live, env, pinned, repo, run, decided, pass, genuine>>

\* the install thread of the snap: it starts no Spinner
SnapInstall ==
    /\ Running
    /\ threads.install["qualia-gtk-theme-snap"] = "running"
    /\ \E res \in {"ok", "nonzero"} :
         IF res = "nonzero"
         THEN /\ ProcessEnds("aborted", env)
              /\ outcome' = [outcome EXCEPT !["qualia-gtk-theme-snap"] = "failed"]
              /\ UNCHANGED threads
         ELSE /\ outcome' = [outcome EXCEPT !["qualia-gtk-theme-snap"] = "built"]
              /\ threads' = [threads EXCEPT !.install["qualia-gtk-theme-snap"] = "ended"]
              /\ UNCHANGED <<pc, config, f>>
    /\ UNCHANGED <<disk, live, env, pinned, repo, run, decided, pass, genuine>>

\* the constructor of the snap installer returns; main: "Symlink themes to
\* /usr dir if using mate"
SnapReturn ==
    /\ pc = "snap"
    /\ threads.main = "waiting"
    /\ ~is_alive(threads.spinner["qualia-gtk-theme-snap"])
    /\ threads' = [threads EXCEPT !.main = "before"]
    /\ \E res \in {"ok", "nonzero"} :
         /\ res = "nonzero" => config.desktop_versions["mate"] # None
         /\ IF res = "nonzero"
            THEN ProcessEnds("aborted", env)
            ELSE pc' = "enable" /\ UNCHANGED <<config, f>>
    /\ UNCHANGED <<disk, live, env, pinned, repo, run, outcome, decided, pass, genuine>>

NextThreads ==
    \/ ThreadsStartRun
    \/ \E g \in VersionGroups : ThreadStart(g)
    \/ \E g \in VersionGroups : InstallBegin(g)
    \/ \E g \in VersionGroups : InstallBuild(g)
    \/ \E g \in GroupSet : SpinnerCheck(g)
    \/ \E g \in GroupSet : SpinnerDraw(g)
    \/ \E g \in GroupSet : SpinnerEnd(g)
    \/ \E g \in GroupSet : ThreadJoin(g)
    \/ \E g \in VersionGroups : ThreadReturn(g)
    \/ SnapStart
    \/ SnapInstall
    \/ SnapReturn
    \/ EnableThemes
    \/ Finish

\* every thread that can run does run: the interpreter switches threads
SpecThreads ==
    /\ Init
    /\ [][NextThreads]_vars
    /\ \A g \in GroupSet : WF_vars(SpinnerStep(g)) /\ WF_vars(ThreadJoin(g))

-----------------------------------------------------------------------------
(* The installers as threads: properties *)

\* a thread of the installer of group g runs: its install thread or its Spinner
InFlight(g) == is_alive(threads.install[g]) \/ is_alive(threads.spinner[g])

\* nothing of the installer of group g was started
Unstarted(g) == threads.install[g] = "none" /\ threads.spinner[g] = "none"

\* C27: builds are sequential. Whenever a thread of the installer of a group
\* was started, the install thread and the Spinner of every group before it in
\* the order of main (dg-adw-gtk3, dg-yaru, dg-libadwaita, dg-firefox-theme,
\* dg-vscode-adwaita, snap) have ended, and while a thread of a group runs
\* nothing of a later group was started and main is inside the constructor of
\* that group: no two install actions are ever in flight.
C27_Sequential ==
    \A i \in 1..Len(MainOrder) :
        /\ ~Unstarted(MainOrder[i]) =>
               \A j \in 1..(i - 1) : ~InFlight(MainOrder[j])
        /\ InFlight(MainOrder[i]) =>
               /\ \A j \in (i + 1)..Len(MainOrder) : Unstarted(MainOrder[j])
               /\ Running => pc = Place(MainOrder[i]) /\ threads.main # "before"

\* the Spinner of dg-yaru draws while its install thread builds, after
\* dg-adw-gtk3 was built and its Spinner ended
C27_Witness ==
    /\ pc = "yaru"
    /\ threads.install["dg-yaru"] = "running"
    /\ threads.spinner["dg-yaru"] = "drawing"
    /\ threads.install["dg-adw-gtk3"] = "ended"
    /\ threads.spinner["dg-adw-gtk3"] = "ended"
    /\ outcome["dg-adw-gtk3"] = "built"

\* the constructor of the installer of group g returns in this step
Returns(g) == pc = Place(g) /\ threads.main = "waiting" /\ threads'.main = "before"

\* C28: Spinner termination. A Spinner that is alive when its install thread
\* is no longer alive eventually terminates; the constructor of an
\* InstallThread returns only when its install thread and its Spinner have
\* both terminated; and a step of a Spinner changes neither the record nor
\* the file nor a flag of the script.
C28_SpinnerTermination ==
    /\ \A g \in GroupSet :
         (is_alive(threads.spinner[g]) /\ ~is_alive(threads.install[g]))
             ~> ~is_alive(threads.spinner[g])
    /\ [][\A g \in GroupSet :
            Returns(g) => ~is_alive(threads.install[g]) /\ ~is_alive(threads.spinner[g])]_vars
    /\ [][\A g \in GroupSet : SpinnerStep(g) => UNCHANGED <<config, disk, f>>]_vars

\* the constructor of the dg-yaru installer has returned after its Spinner,
\* which had hidden the cursor, ended
C28_Witness ==
    /\ pc = "libadwaita"
    /\ threads.install["dg-yaru"] = "ended"
    /\ threads.spinner["dg-yaru"] = "ended"
    /\ threads.hid

\* C29: cursor visibility is restored on all exit paths. When the process has
\* ended and one of its Spinners had hidden the cursor, the cursor is visible.
C29_AsStated ==
    (~Running /\ threads.hid) => threads.cursor = "shown"

-----------------------------------------------------------------------------
(* The snapshot map: properties *)

\* every theme of a snapshot map has an entry for at most one desktop
AtMostOne(old) == \A i \in 1..Len(old) : Len(old[i].des) <= 1

\* C30: at most one desktop per theme in the snapshot map. In the record the
\* script holds, in the record a pass of enable_theme was given and in the one
\* it left, the snapshot map of each theme holds an entry for at most one
\* desktop environment.
C30_OneDesktopPerTheme ==
    /\ AtMostOne(config.old)
    /\ AtMostOne(pass.old_before)
    /\ AtMostOne(pass.old_after)

\* a pass has set a theme on two desktops and left a snapshot for one of them
C30_Witness ==
    /\ pass.made
    /\ \E i, j \in 1..Len(pass.writes) :
         /\ pass.writes[i].theme = pass.writes[j].theme
         /\ pass.writes[i].de # pass.writes[j].de
         /\ HasSnap(pass.old_after, pass.writes[i].theme, pass.writes[i].de)
         /\ ~HasSnap(pass.old_after, pass.writes[j].theme, pass.writes[j].de)

\* Config.read was given a file with snapshots of gtk3 for two desktops and
\* kept the one of the last line
C30_ReadTwice ==
    /\ disk.kind = "file"
    /\ InSeq("old_gtk3_gnome: Adwaita", disk.lines)
    /\ InSeq("old_gtk3_xfce: Greybird", disk.lines)
    /\ HasTheme(config.old, "gtk3")

-----------------------------------------------------------------------------
(* The options of the dg-yaru build: properties *)

\* how many times an option is in a list of options
Times(opt, options) == Cardinality({i \in 1..Len(options) : options[i] = opt})

\* dg-yaru was rebuilt in this run, or its build was started
C32_Rebuilt == Running /\ decided["dg-yaru"].made /\ decided["dg-yaru"].rebuild

\* C32, as stated: on every rebuild of dg-yaru the options hold
\* '-Dpanel-icons=true' when unity or mate is detected and
\* '-Dpanel-icons=false' otherwise, each once and never both.
C32_AsStated ==
    C32_Rebuilt =>
        LET options == decided["dg-yaru"].options
            panel == config.desktop_versions["unity"] # None
                     \/ config.desktop_versions["mate"] # None
        IN /\ Times("-Dpanel-icons=true", options) = (IF panel THEN 1 ELSE 0)
           /\ Times("-Dpanel-icons=false", options) = (IF panel THEN 0 ELSE 1)

\* the rest of C32: on every rebuild of dg-yaru each of the nine parts has
\* exactly one option, '=true' for an enabled part and '=false' for another,
\* and '-Dgnome-shell-version=<v>' is there exactly when gnome is detected
\* with version v
C32_PartsAndGnome ==
    C32_Rebuilt =>
        LET options == decided["dg-yaru"].options
            gnome == config.desktop_versions["gnome"]
        IN /\ \A i \in 1..Len(Parts("dg-yaru")) :
                LET p == Parts("dg-yaru")[i] IN
                /\ Times("-D" \o p \o "=true", options)
                       = (IF InSeq(p, config.enabled) THEN 1 ELSE 0)
                /\ Times("-D" \o p \o "=false", options)
                       = (IF InSeq(p, config.enabled) THEN 0 ELSE 1)
           /\ \A v \in {42, 43} :
                Times("-Dgnome-shell-version=" \o DecStr(v), options)
                    = (IF gnome = v THEN 1 ELSE 0)
           /\ Len(options) = Len(Parts("dg-yaru")) + 1 + (IF gnome # None THEN 1 ELSE 0)

-----------------------------------------------------------------------------
(* The record file at the legacy path: the script is first started on a host *)
(* where OLD_CONFIG is a file and CONFIG_FILE is not there                   *)

\* a record file an earlier run left at OLD_CONFIG
LegacyLines ==
    <<"color: purple", "theme: auto", "enabled: gtk3 icons",
      "dg-adw-gtk3_version: " \o TokenB, "old_gtk3_gnome: Yaru">>

InitLegacy ==
    /\ disk = NoFile
    /\ live = InitValues
    /\ env \in {[e EXCEPT !.legacy = File(LegacyLines)] : e \in Envs}
    /\ pinned = [g \in VersionGroups |-> TokenA]
    /\ repo = [g \in VersionGroups |-> TokenA]
    /\ config = NewConfig(env)
    /\ f = NoFlags
    /\ pc = "idle"
    /\ run = 0
    /\ outcome = NoOutcome
    /\ decided = NoDecision
    /\ pass = NoPass
    /\ genuine = {}
    /\ threads = NoThreads

\* the script is started with no option
LegacyStartRun == StartMain(PullChoices, EnvsAfter(env), {NoFlags}) /\ UNCHANGED threads

NextLegacy ==
    \/ LegacyStartRun
    \/ InstallDgAdwGtk3
    \/ InstallDgYaru
    \/ InstallDgLibadwaita
    \/ InstallDgFirefoxTheme
    \/ InstallDgVscodeAdwaita
    \/ InstallQualiaGtkThemeSnap
    \/ EnableThemes
    \/ Finish

SpecLegacy == InitLegacy /\ [][NextLegacy]_vars

-----------------------------------------------------------------------------
(* The record file at the legacy path: properties *)

\* C31, as stated: the legacy-path record is used. In the first run, started
\* with no option on a host where the record file is at the legacy path only,
\* the record of the run holds the color, the theme, the enabled list, the
\* version token and the snapshot of that file, and when the run has ended
\* the file at CONFIG_FILE still holds the snapshot.
C31_AsStated ==
    /\ (run = 1 /\ Running) =>
           /\ config.color = "purple" /\ config.theme = "auto"
           /\ config.enabled = <<"gtk3", "icons">>
           /\ HasSnap(config.old, "gtk3", "gnome")
           /\ Snap(config.old, "gtk3", "gnome").val = "Yaru"
    /\ (run = 1 /\ pc = "done") =>
           /\ disk.kind = "file"
           /\ InSeq("old_gtk3_gnome: Yaru", disk.lines)

-----------------------------------------------------------------------------
(* The sub-options: the script is started, with the options that ask again,  *)
(* on hosts with and without Firefox and VS Code                             *)

SubEnvs ==
    {[BaseEnv EXCEPT !.desktop_versions = [NoDesktop EXCEPT !["gnome"] = 42],
                     !.firefox = fx, !.vscode = vs, !.gnome_extensions = "listed"] :
        fx \in {<<>>, SubSeq(FirefoxVariants, 1, 1)}, vs \in {<<>>, VscodeVariants}}

\* the enabled lists of the record files the script wrote before
SubEnabled ==
    {"gtk3", "gtk3 firefox", "gtk3 firefox settings_theme", "gtk3 vscode default_syntax",
     "gtk3 firefox vscode"}

SubFiles == {<<"color: orange", "theme: light", "enabled: " \o e>> : e \in SubEnabled}

\* no option, --reconfigure, and the options that ask one question again
SubFlags ==
    {NoFlags, [NoFlags EXCEPT !.reconfigure = TRUE], [NoFlags EXCEPT !.update_settings = TRUE],
     [NoFlags EXCEPT !.update_syntax = TRUE],
     [NoFlags EXCEPT !.update_settings = TRUE, !.update_syntax = TRUE],
     [NoFlags EXCEPT !.reconfigure = TRUE, !.update_settings = TRUE]}

SubAnswers ==
    {[color |-> "orange", theme |-> "light", yes |-> {"gtk3"} \cup yes] :
        yes \in SUBSET {"firefox", "settings_theme", "vscode", "default_syntax"}}

InitSub ==
    /\ disk \in {NoFile} \cup {File(lines) : lines \in SubFiles}
    /\ live = InitValues
    /\ env \in SubEnvs
    /\ pinned = [g \in VersionGroups |-> TokenA]
    /\ repo = [g \in VersionGroups |-> TokenA]
    /\ config = NewConfig(env)
    /\ f = NoFlags
    /\ pc = "new"
    /\ run = 0
    /\ outcome = NoOutcome
    /\ decided = NoDecision
    /\ pass = NoPass
    /\ genuine = {}
    /\ threads = NoThreads

\* main after conf.read(), down to config['variant'] = ..., with the options
\* of the command line
SubMain ==
    /\ pc = "read" /\ config.exc = ""
    /\ \E f0 \in SubFlags, answers \in SubAnswers :
         LET r == main_start(config, disk, env, f0, answers) IN
         /\ ValidAnswers(answers, env)
         /\ disk' = r.file
         /\ config' = r.config
         /\ f' = r.f
         /\ pc' = IF r.end = "" THEN "main" ELSE IF r.end = "exit" THEN "main exit"
                  ELSE "main crash"
    /\ env' = [env EXCEPT !.legacy = move_old(env.legacy, disk).legacy]
    /\ UNCHANGED <<live, pinned, repo, run, outcome, decided, pass, genuine, threads>>

NextSub == RecordRead \/ SubMain

SpecSub == InitSub /\ [][NextSub]_vars

-----------------------------------------------------------------------------
(* The sub-options: properties *)

\* a sub-option is enabled only with its parent
FollowsParent(enabled) ==
    /\ InSeq("settings_theme", enabled) => InSeq("firefox", enabled)
    /\ InSeq("default_syntax", enabled) => InSeq("vscode", enabled)

\* main starts on a record file without issues, with no --reconfigure: the
\* questions asked are those of the options that ask again
NarrowOnly ==
    /\ pc = "read" /\ pc' # "read"
    /\ disk.kind = "file" /\ ~has_issues(config)
    /\ ~f'.reconfigure

\* the first sub-option main asks again about has no parent in the record
FirstParentMissing ==
    \/ f'.update_settings /\ ~InSeq("firefox", config.enabled)
    \/ f'.update_syntax /\ ~f'.update_settings /\ ~InSeq("vscode", config.enabled)

\* a sub-option main asks again about has no parent in the record
ParentMissing ==
    \/ f'.update_settings /\ ~InSeq("firefox", config.enabled)
    \/ f'.update_syntax /\ ~InSeq("vscode", config.enabled)

\* what the user chose and what the script recorded is as before
SameRecord ==
    /\ config'.color = config.color /\ config'.theme = config.theme
    /\ config'.enabled = config.enabled
    /\ config'.version = config.version /\ config'.old = config.old

\* C33: sub-options follow their parent. After a full configuration
\* 'settings_theme' is enabled only if 'firefox' is and 'default_syntax' only
\* if 'vscode' is; when main asks again about a sub-option whose parent is not
\* enabled, the script exits and the record file is as before; and when that
\* is the first question, the record is as before too.
C33_SubOptions ==
    /\ [](pc = "main" /\ f.configure_all => FollowsParent(config.enabled))
    /\ [][NarrowOnly /\ ParentMissing => pc' = "main exit" /\ disk' = disk]_vars
    /\ [][NarrowOnly /\ FirstParentMissing => SameRecord]_vars

\* a full configuration has enabled Firefox with its settings pages, and
\* VS Code without the default syntax
C33_Witness ==
    /\ pc = "main" /\ f.configure_all
    /\ InSeq("firefox", config.enabled) /\ InSeq("settings_theme", config.enabled)
    /\ InSeq("vscode", config.enabled) /\ ~InSeq("default_syntax", config.enabled)

\* --settings alone on a record without Firefox: the script has exited
C33_WitnessExit ==
    /\ pc = "main exit"
    /\ f.update_settings /\ ~f.update_syntax /\ ~f.configure_all
    /\ ~InSeq("firefox", config.enabled)

\* --settings and --syntax on a record with Firefox and without VS Code: the
\* script has exited at the second question
C33_WitnessSecond ==
    /\ pc = "main exit"
    /\ f.update_settings /\ f.update_syntax /\ ~f.configure_all
    /\ InSeq("firefox", config.enabled) /\ ~InSeq("vscode", config.enabled)

====
